---- MODULE Spec2Model ----
(***************************************************************************)
(* Model of the decision logic of the interview backend:                   *)
(*   - the question block service (submit / skip / retry of a question-    *)
(*     answer record and the counters of its block),                       *)
(*     backend/app/services/question_block_service.py                      *)
(*   - the adaptive difficulty engine (strong pass / fail classifier, the  *)
(*     level state machine, task and coding scores),                       *)
(*     backend/app/adaptive/engine.py                                      *)
(*   - the trust score (replay of the anti-cheat events, AI-likeness,      *)
(*     penalties, status, reasons),                                        *)
(*     backend/app/services/anti_cheat_advanced.py                         *)
(*   - the final grade, backend/app/grading/aggregate.py and levels.py,    *)
(*     the start grade and the final grade of an interview,                *)
(*     backend/app/services/grading_service.py                             *)
(*   - the interview endpoints: next-task progression, code submissions    *)
(*     and hints, backend/app/api/interview.py                             *)
(*   - the hiring decision, backend/app/services/scoring_formula.py        *)
(*   - POST /answer and requests that interleave on one question-answer    *)
(*     record, backend/app/api/question_block.py                           *)
(* Floats are modelled as exact rationals [num, den] in lowest terms. The  *)
(* multipliers of the question block are powers of two, so the floats of   *)
(* the code are exact there; the scores of the engine and of the grading   *)
(* are rounded by the code in the last place (0.9000000000000001 for 0.9), *)
(* which the rationals leave out.                                          *)
(***************************************************************************)
EXTENDS Integers, Sequences, FiniteSets, TLC

\* ------------------------------------------------------------------ bounds

\* questions of one block (the service creates 20 by default)
NumQuestions == 2
\* retry_answer is cut off once a record has reached this attempt number
MaxAttempt == 3
\* visible tests of a task
MaxVisible == 3
\* hidden tests of a task
MaxHidden == 10
\* medium hints used on a task
MaxHintsMedium == 2
\* hard hints used on a task
MaxHintsHard == 1
\* soft hints used on a scored task
MaxHintsSoft == 1
\* visible tests of a scored task
MaxScoredVisible == 2
\* hidden tests of a scored task
MaxScoredHidden == 3
\* big pastes counted in an interview
MaxBigPastes == 4
\* pastes after a long blur counted in an interview
MaxBlurPastes == 1
\* suspiciously fast solutions counted in an interview
MaxFastSolutions == 3
\* focus losses counted in an interview
MaxFocusLost == 6
\* completed tasks whose last submission the AI-likeness check is asked about
MaxAnalysed == 2
\* anti-cheat events stored for an interview
MaxEvents == 3
\* years of experience of a candidate, in half years
MaxYearsHalves == 7
\* visible tests of a task of a graded interview
MaxGradedTests == 2
\* theory answers of a graded interview
MaxTheoryAnswers == 2
\* copy_paste_count of the cheat signals ranges over 0..MaxCopyPastes
MaxCopyPastes == 4
\* a coding task has up to MaxTaskVisible visible and MaxTaskHidden hidden tests
MaxTaskVisible == 2
MaxTaskHidden == 2
\* submissions and hint requests made on one coding task
MaxSubmissions == 3
MaxHintRequests == 2
\* requests that run concurrently on one question-answer record, and the
\* requests issued in one run
NumRequests == 2
MaxIssued == 3

\* ------------------------------------------------------- values and floats

\* Python's None, and a present value
None == <<>>
Some(x) == <<x>>

RECURSIVE GCD(_, _)
GCD(a, b) == IF b = 0 THEN a ELSE GCD(b, a % b)

\* the rational n/d (d > 0, n >= 0) in lowest terms
Rat(n, d) == LET g == GCD(n, d) IN [num |-> n \div g, den |-> d \div g]
RatOfInt(n) == [num |-> n, den |-> 1]
RatMul(x, y) == Rat(x.num * y.num, x.den * y.den)
RatAdd(x, y) == Rat(x.num * y.den + y.num * x.den, x.den * y.den)
RatDivInt(x, k) == Rat(x.num, x.den * k)
RatGeq(x, y) == x.num * y.den >= y.num * x.den
RatLt(x, y) == x.num * y.den < y.num * x.den
RatLeq(x, y) == x.num * y.den <= y.num * x.den
\* x / y for y > 0
RatDiv(x, y) == Rat(x.num * y.den, x.den * y.num)
\* 1.0 - x for x <= 1
RatOneMinus(x) == Rat(x.den - x.num, x.den)
RatMin(x, y) == IF RatLeq(x, y) THEN x ELSE y
RatMax(x, y) == IF RatGeq(x, y) THEN x ELSE y

RECURSIVE Pow2(_)
Pow2(k) == IF k = 0 THEN 1 ELSE 2 * Pow2(k - 1)

\* ------------------------------------------------------------------- state

VARIABLES
    answers,          \* QuestionAnswer rows of the block, by answer id
    block,            \* the QuestionBlock row
    last_call,        \* the last service call: its arguments and its result
    accepted_retries, \* history: accepted retry_answer calls per answer id
    evaluations,      \* the evaluation_details and feedback columns of the rows
    level,            \* current difficulty level of the adaptive engine
    task_result,      \* the TaskResult handed to the engine
    last_update,      \* the last update_level_after_task call, or None
    scoring,          \* the task results being scored and the scores returned
    trust,            \* a trust-score request: signals, AI outcomes, results
    replay,           \* an event history and the signals build_signals made of it
    grading,          \* a final-grade calculation: its inputs and its fields
    start,            \* a calculate_start_grade call: its arguments and its result
    progression,      \* an interview with its tasks, and the last next-task call
    decision,         \* a determine_decision call: its arguments and its result
    coding_task,      \* a coding task with its submissions and hints
    final,            \* an interview being graded by calculate_final_grade_for_interview
    requests          \* the requests in flight on one question-answer record

vars == <<answers, block, last_call, accepted_retries, evaluations,
          level, task_result, last_update,
          scoring, trust, replay, grading, start, progression,
          decision, coding_task, final, requests>>

qbVars == <<answers, block, last_call, accepted_retries, evaluations>>
adaptiveVars == <<level, task_result, last_update>>
\* what the question block service and the adaptive engine never touch
otherVars == <<scoring, trust, replay, grading,
               start, progression, decision, coding_task, final, requests>>
\* the state of the interview endpoints and of the services they call
interviewVars == <<start, progression, decision, coding_task, final, requests>>
\* what the interview endpoints never touch
coreVars == <<qbVars, adaptiveVars, scoring, trust, replay, grading>>
\* all but one variable of the interview endpoints
exceptStart == <<coreVars, progression, decision, coding_task, final, requests>>
exceptProgression == <<coreVars, start, decision, coding_task, final, requests>>
exceptDecision == <<coreVars, start, progression, coding_task, final, requests>>
exceptCodingTask == <<coreVars, start, progression, decision, final, requests>>
exceptFinal == <<coreVars, start, progression, decision, coding_task, requests>>

AnswerIds == 1..NumQuestions
\* an id no row has
UnknownId == NumQuestions + 1

\* evaluation scores a caller passes to submit_answer (None: no score)
EvalScores == {None, Some(69), Some(70), Some(80)}

\* ------------------------------------------------ question block service

\* a QuestionAnswer row as start_question_block inserts it
NewQuestionAnswer(order) ==
    [ question_order   |-> order,
      status           |-> "pending",
      score            |-> None,
      is_correct       |-> None,
      attempt_number   |-> 1,
      score_multiplier |-> RatOfInt(1) ]

\* the QuestionBlock row as start_question_block inserts it
NewQuestionBlock ==
    [ total_questions        |-> NumQuestions,
      current_question_index |-> 0,
      status                 |-> "in_progress",
      total_answered         |-> 0,
      total_skipped          |-> 0,
      total_correct          |-> 0,
      average_score          |-> None ]

RECURSIVE SumScores(_, _)
SumScores(rows, ids) ==
    IF ids = {} THEN RatOfInt(0)
    ELSE LET i == CHOOSE x \in ids : TRUE
         IN RatAdd(rows[i].score[1], SumScores(rows, ids \ {i}))

\* _calculate_block_statistics: average of the scores present, count of the
\* rows whose is_correct is true (category and difficulty breakdowns are
\* not part of the state the model keeps)
CalculateBlockStatistics(b, rows) ==
    LET scored == {i \in AnswerIds : rows[i].score # None}
        avg == IF scored = {} THEN RatOfInt(0)
               ELSE RatDivInt(SumScores(rows, scored), Cardinality(scored))
    IN [b EXCEPT !.average_score = Some(avg),
                 !.total_correct = Cardinality({i \in AnswerIds : rows[i].is_correct = Some(TRUE)})]

\* the tail of submit_answer and skip_question: advance the index and
\* complete the block once the index has reached total_questions
AdvanceBlock(b, rows) ==
    LET moved == [b EXCEPT !.current_question_index = @ + 1]
    IN IF moved.current_question_index >= moved.total_questions
       THEN CalculateBlockStatistics([moved EXCEPT !.status = "completed"], rows)
       ELSE moved

\* answer.score_multiplier or 1.0
MultiplierOrOne(m) == IF m.num = 0 THEN RatOfInt(1) ELSE m

\* final_score = evaluation_score * multiplier
FinalScore(e, m) == RatMul(RatOfInt(e), m)

\* the threshold left unscaled: final_score >= 70
IsCorrectUnscaled(final_score, m) == RatGeq(final_score, RatOfInt(70))

\* is_correct = final_score >= 70 * multiplier
IsCorrect(final_score, m) == RatGeq(final_score, RatMul(RatOfInt(70), m))

\* a service call and the error it returned (None: the success dict); the
\* evaluation score is kept for the calls that used it, the accepted submits
Call(op, id, evaluation_score, err) ==
    [ op               |-> op,
      answer_id        |-> id,
      evaluation_score |-> IF err = None THEN evaluation_score ELSE None,
      error            |-> err ]

\* a retry check that only excludes pending rows
IsNotPending(a) == a.status # "pending"
\* a submit / skip check that only excludes answered rows
IsNotAnswered(a) == a.status # "answered"

\* the status checks that let an operation through
IsPending(a) == a.status = "pending"
IsAnswered(a) == a.status = "answered"

\* the evaluation columns of a row that has none
NoEvaluation == [evaluation_details |-> None, feedback |-> None]

\* the row an accepted submit_answer leaves
SubmittedRow(a, evaluation_score) ==
    LET multiplier == MultiplierOrOne(a.score_multiplier)
    IN  IF evaluation_score # None
        THEN LET final_score == FinalScore(evaluation_score[1], multiplier)
             IN [a EXCEPT !.status = "answered",
                          !.score = Some(final_score),
                          !.is_correct = Some(IsCorrect(final_score, multiplier))]
        ELSE [a EXCEPT !.status = "answered"]

\* submit_answer: what the call does to the rows, the block and the result
SubmitAnswerCall(id, evaluation_score) ==
    IF id \notin AnswerIds
    THEN /\ last_call' = Call("submit", id, evaluation_score, Some("Answer not found"))
         /\ UNCHANGED <<answers, block>>
    ELSE IF ~IsPending(answers[id])
    THEN /\ last_call' = Call("submit", id, evaluation_score, Some("Question already answered or skipped"))
         /\ UNCHANGED <<answers, block>>
    ELSE LET rows == [answers EXCEPT ![id] = SubmittedRow(@, evaluation_score)]
         IN /\ answers' = rows
            /\ block' = AdvanceBlock([block EXCEPT !.total_answered = @ + 1], rows)
            /\ last_call' = Call("submit", id, evaluation_score, None)

SubmitAnswer(id, evaluation_score) ==
    /\ SubmitAnswerCall(id, evaluation_score)
    /\ UNCHANGED <<accepted_retries, evaluations, adaptiveVars, otherVars>>

SkipQuestion(id) ==
    /\ IF id \notin AnswerIds
       THEN /\ last_call' = Call("skip", id, None, Some("Answer not found"))
            /\ UNCHANGED <<answers, block>>
       ELSE IF ~IsPending(answers[id])
       THEN /\ last_call' = Call("skip", id, None, Some("Question already answered or skipped"))
            /\ UNCHANGED <<answers, block>>
       ELSE LET rows == [answers EXCEPT ![id] = [@ EXCEPT !.status = "skipped",
                                                          !.score = Some(RatOfInt(0)),
                                                          !.is_correct = Some(FALSE)]]
            IN /\ answers' = rows
               /\ block' = AdvanceBlock([block EXCEPT !.total_skipped = @ + 1], rows)
               /\ last_call' = Call("skip", id, None, None)
    /\ UNCHANGED <<accepted_retries, evaluations, adaptiveVars, otherVars>>

\* get_current_question: the completed notice, or the row whose
\* question_order is current_question_index + 1, or None when there is none
get_current_question(b, rows) ==
    IF b.status = "completed" THEN Some([status |-> "completed"])
    ELSE LET current == {i \in AnswerIds : rows[i].question_order = b.current_question_index + 1}
         IN  IF current = {} THEN None
             ELSE LET i == CHOOSE x \in current : TRUE
                  IN  Some([ answer_id |-> i,
                             question_order |-> rows[i].question_order,
                             status |-> rows[i].status ])

\* new_attempt = (attempt_number or 1) + 1
NewAttempt(attempt_number) == (IF attempt_number = 0 THEN 1 ELSE attempt_number) + 1

\* the exponent off by one: 1.0 / (2 ** new_attempt)
NewMultiplierOffByOne(new_attempt) == Rat(1, Pow2(new_attempt))
\* the reciprocal dropped: 2 ** (new_attempt - 1)
NewMultiplierInverted(new_attempt) == Rat(Pow2(new_attempt - 1), 1)

\* new_multiplier = 1.0 / (2 ** (new_attempt - 1))
NewMultiplier(new_attempt) == Rat(1, Pow2(new_attempt - 1))

\* the decrement forgotten
DecrementAnsweredNever(total_answered) == total_answered

\* the guarded decrement of retry_answer
DecrementAnswered(total_answered) ==
    IF total_answered > 0 THEN total_answered - 1 ELSE total_answered

\* the row an accepted retry_answer leaves
RetriedRow(a) ==
    LET new_attempt == NewAttempt(a.attempt_number)
    IN  [a EXCEPT !.status = "pending",
                  !.score = None,
                  !.is_correct = None,
                  !.attempt_number = new_attempt,
                  !.score_multiplier = NewMultiplier(new_attempt)]

RetryAnswer(id) ==
    /\ IF id \notin AnswerIds
       THEN /\ last_call' = Call("retry", id, None, Some("Answer not found"))
            /\ UNCHANGED <<answers, block, accepted_retries, evaluations>>
       ELSE IF ~IsAnswered(answers[id])
       THEN /\ last_call' = Call("retry", id, None, Some("Can only retry answered questions"))
            /\ UNCHANGED <<answers, block, accepted_retries, evaluations>>
       ELSE /\ answers[id].attempt_number < MaxAttempt
            /\ answers' = [answers EXCEPT ![id] = RetriedRow(@)]
            /\ evaluations' = [evaluations EXCEPT ![id] = NoEvaluation]
            /\ block' = [block EXCEPT !.total_answered = DecrementAnswered(@)]
            /\ accepted_retries' = [accepted_retries EXCEPT ![id] = @ + 1]
            /\ last_call' = Call("retry", id, None, None)
    /\ UNCHANGED <<adaptiveVars, otherVars>>

\* the scores of the LLM evaluation that POST /answer converts without a
\* fraction: (llm_score / 3) * 100 is 0.0 for 0 and 100.0 for 3
LlmScores == {0, 3}
EvaluationScoreOf(llm_score) == (llm_score * 100) \div 3

\* what evaluate_answer gives: a score, or None when it raised and the
\* endpoint submits without a score
LlmOutcomes == {None} \cup {Some(llm_score) : llm_score \in LlmScores}

\* POST /answer: look the row up, evaluate the answer, store the evaluation
\* and commit, then call submit_answer
AnswerQuestion(id, evaluation) ==
    /\ IF id \notin AnswerIds
       THEN /\ last_call' = Call("answer", id, None, Some("Answer not found"))
            /\ UNCHANGED <<answers, block, evaluations>>
       ELSE IF evaluation = None
       THEN /\ SubmitAnswerCall(id, None)
            /\ UNCHANGED evaluations
       ELSE /\ evaluations' = [evaluations EXCEPT ![id] =
                                  [ evaluation_details |-> evaluation,
                                    feedback |-> evaluation ]]
            /\ SubmitAnswerCall(id, Some(EvaluationScoreOf(evaluation[1])))
    /\ UNCHANGED <<accepted_retries, adaptiveVars, otherVars>>

InitBlock ==
    /\ answers = [i \in AnswerIds |-> NewQuestionAnswer(i)]
    /\ block = NewQuestionBlock
    /\ last_call = Call("start", 0, None, None)
    /\ accepted_retries = [i \in AnswerIds |-> 0]
    /\ evaluations = [i \in AnswerIds |-> NoEvaluation]

\* ------------------------------------------------------- adaptive engine

\* DifficultyLevel = Literal["easy", "medium", "middle", "hard"]
DifficultyLevel == {"easy", "medium", "middle", "hard"}

\* the states of the progression machine
Levels == {"easy", "middle", "hard"}

\* TaskResult values within the bounds; passed counts may exceed totals
\* (time_sec is read by none of the functions modelled)
TaskResults ==
    [ difficulty     : DifficultyLevel,
      visible_passed : 0..MaxVisible,
      visible_total  : 0..MaxVisible,
      hidden_passed  : 0..MaxHidden,
      hidden_total   : 0..MaxHidden,
      hints_medium   : 0..MaxHintsMedium,
      hints_hard     : 0..MaxHintsHard ]

\* max(1, n)
Max1(n) == IF n > 1 THEN n ELSE 1

\* visible_passed / max(1, visible_total)
VisibleRate(r) == Rat(r.visible_passed, Max1(r.visible_total))

\* (visible_passed + hidden_passed) / max(1, visible_total + hidden_total)
TotalRate(r) ==
    Rat(r.visible_passed + r.hidden_passed, Max1(r.visible_total + r.hidden_total))

\* the hint conditions dropped from the easy / middle rule
is_strong_pass_ignoring_hints(r) ==
    /\ VisibleRate(r) = RatOfInt(1)
    /\ RatGeq(TotalRate(r), IF r.difficulty \in {"easy", "middle"} THEN Rat(9, 10) ELSE Rat(3, 4))

\* the visible rate not required to be 1.0
is_strong_pass_total_only(r) ==
    IF r.difficulty \in {"easy", "middle"}
    THEN /\ RatGeq(TotalRate(r), Rat(9, 10))
         /\ r.hints_hard = 0
         /\ r.hints_medium <= 1
    ELSE RatGeq(TotalRate(r), Rat(3, 4))

is_strong_pass(r) ==
    IF r.difficulty \in {"easy", "middle"}
    THEN /\ VisibleRate(r) = RatOfInt(1)
         /\ RatGeq(TotalRate(r), Rat(9, 10))
         /\ r.hints_hard = 0
         /\ r.hints_medium <= 1
    ELSE /\ VisibleRate(r) = RatOfInt(1)
         /\ RatGeq(TotalRate(r), Rat(3, 4))

is_fail(r) ==
    \/ RatLt(VisibleRate(r), Rat(6, 10))
    \/ RatLt(TotalRate(r), Rat(5, 10))

\* the ceiling forgotten: hard wraps around
level_up_wrapping(l) ==
    IF l = "easy" THEN "middle" ELSE IF l = "middle" THEN "hard" ELSE "easy"

level_up(l) ==
    IF l = "easy" THEN "middle" ELSE IF l = "middle" THEN "hard" ELSE "hard"

level_down(l) ==
    IF l = "hard" THEN "middle" ELSE IF l = "middle" THEN "easy" ELSE "easy"

\* the advance flag not consulted: any fail lowers the level
update_level_ignoring_click(current_level, result, user_clicked_next) ==
    IF is_strong_pass(result) THEN level_up(current_level)
    ELSE IF is_fail(result) THEN level_down(current_level)
    ELSE current_level

update_level_after_task(current_level, result, user_clicked_next) ==
    IF is_strong_pass(result) THEN level_up(current_level)
    ELSE IF is_fail(result) /\ user_clicked_next THEN level_down(current_level)
    ELSE current_level

\* one call of update_level_after_task on the task at hand; the caller
\* stores the level it returns
UpdateLevelAfterTask(user_clicked_next) ==
    /\ level' = update_level_after_task(level, task_result, user_clicked_next)
    /\ last_update' = Some([ current_level     |-> level,
                             user_clicked_next |-> user_clicked_next,
                             returned          |-> level' ])
    /\ UNCHANGED <<task_result, qbVars, otherVars>>

InitAdaptiveIdle ==
    /\ level = "easy"
    /\ task_result = None
    /\ last_update = None

InitAdaptive ==
    /\ level \in Levels
    /\ task_result \in TaskResults
    /\ last_update = None

\* --------------------------------------------------------- task scoring

\* TaskResult values handed to the scoring functions
ScoredTaskResults ==
    [ difficulty     : DifficultyLevel,
      visible_passed : 0..MaxScoredVisible,
      visible_total  : 0..MaxScoredVisible,
      hidden_passed  : 0..MaxScoredHidden,
      hidden_total   : 0..MaxScoredHidden,
      hints_soft     : 0..MaxHintsSoft,
      hints_medium   : 0..MaxHintsMedium,
      hints_hard     : 0..MaxHintsHard ]

\* what a call gave back: a value, or the exception it raised
Returned(x) == [raised |-> "", value |-> Some(x)]
Raised(exc) == [raised |-> exc, value |-> None]

\* {"easy": 1.0, "middle": 2.0, "hard": 3.0}[difficulty]; None: KeyError
DifficultyWeight(d) ==
    CASE d = "easy" -> Some(1)
      [] d = "middle" -> Some(2)
      [] d = "hard" -> Some(3)
      [] OTHER -> None

\* the cap forgotten
HintPenaltyUncapped(r) ==
    Rat(10 * r.hints_soft + 20 * r.hints_medium + 35 * r.hints_hard, 100)

\* min(0.10 * soft + 0.20 * medium + 0.35 * hard, 0.7)
HintPenalty(r) ==
    RatMin(Rat(10 * r.hints_soft + 20 * r.hints_medium + 35 * r.hints_hard, 100), Rat(7, 10))

\* max(0.0, total_rate * (1.0 - hint_penalty))
EffectiveRate(r) ==
    RatMax(RatOfInt(0), RatMul(TotalRate(r), RatOneMinus(HintPenalty(r))))

calculate_task_score(r) ==
    LET difficulty_weight == DifficultyWeight(r.difficulty)
    IN IF difficulty_weight = None THEN Raised("KeyError")
       ELSE Returned(RatMul(EffectiveRate(r), RatOfInt(difficulty_weight[1])))

RECURSIVE SumTaskScores(_, _)
SumTaskScores(results, n) ==
    IF n = 0 THEN RatOfInt(0)
    ELSE RatAdd(SumTaskScores(results, n - 1), calculate_task_score(results[n]).value[1])

RECURSIVE SumWeights(_, _)
SumWeights(results, n) ==
    IF n = 0 THEN 0 ELSE SumWeights(results, n - 1) + DifficultyWeight(results[n].difficulty)[1]

\* the result left unclamped
ClampScoreNot(x) == x

\* min(100.0, max(0.0, x))
ClampScore(x) == RatMin(RatOfInt(100), RatMax(RatOfInt(0), x))

calculate_coding_score(results) ==
    IF results = <<>> THEN Returned(RatOfInt(0))
    ELSE IF \E i \in 1..Len(results) : DifficultyWeight(results[i].difficulty) = None
    THEN Raised("KeyError")
    ELSE LET total_score == SumTaskScores(results, Len(results))
             total_weight == SumWeights(results, Len(results))
         IN Returned(ClampScore(RatMul(RatDiv(total_score, RatOfInt(Max1(total_weight))),
                                       RatOfInt(100))))

\* a second task of the same interview
CompanionTasks ==
    { [ difficulty |-> df,
        visible_passed |-> passed, visible_total |-> MaxScoredVisible,
        hidden_passed |-> passed, hidden_total |-> MaxScoredHidden,
        hints_soft |-> 0, hints_medium |-> 0, hints_hard |-> 0 ] :
        df \in {"easy", "hard"}, passed \in {0, MaxScoredVisible} }

\* a scoring call on a list of task results
NewScoring(results) == [results |-> results, task_score |-> None, coding_score |-> None]

InitScoringIdle == scoring = None

\* the task lists scored: the empty list, one task, one task and a companion
InitScoring ==
    \/ scoring = NewScoring(<<>>)
    \/ \E r \in ScoredTaskResults : scoring = NewScoring(<<r>>)
    \/ \E r \in ScoredTaskResults, c \in CompanionTasks : scoring = NewScoring(<<r, c>>)

\* calculate_task_score on the first task of the list
CalculateTaskScore ==
    /\ scoring # None
    /\ scoring.results # <<>>
    /\ scoring' = [scoring EXCEPT !.task_score = Some(calculate_task_score(scoring.results[1]))]
    /\ UNCHANGED <<qbVars, adaptiveVars, trust, replay, grading, interviewVars>>

\* calculate_coding_score on the list
CalculateCodingScore ==
    /\ scoring # None
    /\ scoring' = [scoring EXCEPT !.coding_score = Some(calculate_coding_score(scoring.results))]
    /\ UNCHANGED <<qbVars, adaptiveVars, trust, replay, grading, interviewVars>>

\* ------------------------------------------------ trust signal aggregator

\* round(x) and f"{x:.0f}" for x >= 0: to the nearest integer, ties to even
RoundHalfEven(x) ==
    LET q == x.num \div x.den
        twice_rest == 2 * (x.num % x.den)
    IN  IF twice_rest < x.den THEN q
        ELSE IF twice_rest > x.den THEN q + 1
        ELSE IF q % 2 = 0 THEN q ELSE q + 1

\* AntiCheatSignals as build_signals returns it: counts of events, and
\* ai_likeness_score still at its default None
BuiltSignals ==
    [ big_pastes_count : 0..MaxBigPastes,
      pastes_after_long_blur : 0..MaxBlurPastes,
      suspiciously_fast_solutions : 0..MaxFastSolutions,
      devtools_opened : BOOLEAN,
      ai_likeness_score : {None},
      focus_lost_count : 0..MaxFocusLost ]

\* values of result["ai_likeness_score"]
AiScores == {59, 60, 80}

\* what the loop of get_ai_likeness_for_interview meets at one completed
\* task: no submission or an empty code (nothing is analysed), a check that
\* raised (also the KeyError of a reply without the key, such as the
\* fallback reply of a failed request), or a score
NoCode == [kind |-> "no_code", score |-> 0]
CheckRaised == [kind |-> "raised", score |-> 0]
Scored(v) == [kind |-> "score", score |-> v]
TaskOutcomes == {NoCode, CheckRaised} \cup { Scored(v) : v \in AiScores }

\* the completed tasks of the interview, by their outcomes
OutcomeLists == UNION { [1..n -> TaskOutcomes] : n \in 0..MaxAnalysed }

\* ai_scores: the scores appended, in task order
RECURSIVE AiScoresWithErrorsAsZero(_)
AiScoresWithErrorsAsZero(outcomes) ==
    IF outcomes = <<>> THEN <<>>
    ELSE LET rest == AiScoresWithErrorsAsZero(Tail(outcomes))
         IN  IF Head(outcomes) = NoCode THEN rest
             ELSE IF Head(outcomes) = CheckRaised THEN <<0>> \o rest
             ELSE <<Head(outcomes).score>> \o rest

RECURSIVE AppendedAiScores(_)
AppendedAiScores(outcomes) ==
    IF outcomes = <<>> THEN <<>>
    ELSE LET rest == AppendedAiScores(Tail(outcomes))
         IN  IF Head(outcomes) \in {NoCode, CheckRaised} THEN rest
             ELSE <<Head(outcomes).score>> \o rest

RECURSIVE SumSeq(_)
SumSeq(s) == IF s = <<>> THEN 0 ELSE Head(s) + SumSeq(Tail(s))

\* get_ai_likeness_for_interview: None without completed tasks or without
\* scores, else sum(ai_scores) / len(ai_scores)
get_ai_likeness_for_interview(outcomes) ==
    LET ai_scores == AppendedAiScores(outcomes)
    IN  IF outcomes = <<>> THEN None
        ELSE IF ai_scores = <<>> THEN None
        ELSE Some(Rat(SumSeq(ai_scores), Len(ai_scores)))

Min(a, b) == IF a <= b THEN a ELSE b
Max(a, b) == IF a >= b THEN a ELSE b

\* the cap of three pastes left out
BigPastePenaltyUncapped(signals) ==
    IF signals.big_pastes_count >= 1 THEN 10 * signals.big_pastes_count ELSE 0

BigPastePenalty(signals) ==
    IF signals.big_pastes_count >= 1 THEN 10 * Min(signals.big_pastes_count, 3) ELSE 0

BlurPastePenalty(signals) ==
    IF signals.pastes_after_long_blur > 0 THEN 15 ELSE 0

FastPenalty(signals) ==
    IF signals.suspiciously_fast_solutions > 0
    THEN 15 * Min(signals.suspiciously_fast_solutions, 2) ELSE 0

DevtoolsPenalty(signals) == IF signals.devtools_opened THEN 10 ELSE 0

\* the two branches exchanged
AiPenaltySwapped(signals) ==
    IF signals.ai_likeness_score = None THEN 0
    ELSE LET ai == signals.ai_likeness_score[1]
         IN  IF RatGeq(ai, RatOfInt(80)) THEN 10
             ELSE IF RatGeq(ai, RatOfInt(60)) THEN 25
             ELSE 0

AiPenalty(signals) ==
    IF signals.ai_likeness_score = None THEN 0
    ELSE LET ai == signals.ai_likeness_score[1]
         IN  IF RatGeq(ai, RatOfInt(80)) THEN 25
             ELSE IF RatGeq(ai, RatOfInt(60)) THEN 10
             ELSE 0

\* sum(min(8 + (i * 2), 15) for i in range(n)): i = 0 .. n - 1
RECURSIVE ProgressivePenalty(_)
ProgressivePenalty(n) ==
    IF n <= 0 THEN 0 ELSE ProgressivePenalty(n - 1) + Min(8 + (n - 1) * 2, 15)

\* the cap of 50 left out
FocusPenaltyUncapped(signals) ==
    IF signals.focus_lost_count > 1
    THEN ProgressivePenalty(signals.focus_lost_count - 1)
    ELSE 0

FocusPenalty(signals) ==
    IF signals.focus_lost_count > 1
    THEN Min(ProgressivePenalty(signals.focus_lost_count - 1), 50)
    ELSE 0

calc_trust_score(signals) ==
    LET score == 100 - BigPastePenalty(signals) - BlurPastePenalty(signals)
                     - FastPenalty(signals) - DevtoolsPenalty(signals)
                     - AiPenalty(signals) - FocusPenalty(signals)
    IN  Max(0, Min(100, score))

get_trust_status(trust_score) ==
    IF trust_score >= 80 THEN "ok"
    ELSE IF trust_score >= 50 THEN "suspicious"
    ELSE "high_risk"

\* one reason string: which sentence it is and the number it carries
Reason(kind, n) == [kind |-> kind, n |-> n]

\* build_trust_explanation (trust_score is not read)
build_trust_explanation(signals) ==
    LET AiReason ==
            IF signals.ai_likeness_score = None THEN <<>>
            ELSE LET ai == signals.ai_likeness_score[1]
                 IN  IF RatGeq(ai, RatOfInt(80))
                     THEN <<Reason("ai_strong", RoundHalfEven(ai))>>
                     ELSE IF RatGeq(ai, RatOfInt(60))
                     THEN <<Reason("ai_partial", RoundHalfEven(ai))>>
                     ELSE <<>>
        reasons ==
            (IF signals.big_pastes_count > 0
             THEN <<Reason("big_pastes", signals.big_pastes_count)>> ELSE <<>>)
            \o (IF signals.pastes_after_long_blur > 0
                THEN <<Reason("pastes_after_long_blur", 0)>> ELSE <<>>)
            \o (IF signals.suspiciously_fast_solutions > 0
                THEN <<Reason("fast_solutions", signals.suspiciously_fast_solutions)>>
                ELSE <<>>)
            \o (IF signals.devtools_opened THEN <<Reason("devtools", 0)>> ELSE <<>>)
            \o AiReason
            \o (IF signals.focus_lost_count > 0
                THEN IF signals.focus_lost_count = 1
                     THEN <<Reason("focus_lost_once", 1)>>
                     ELSE <<Reason("focus_lost_many", signals.focus_lost_count)>>
                ELSE <<>>)
    IN  IF reasons = <<>> THEN <<Reason("no_anomalies", 0)>> ELSE reasons

\* a trust-score request: the signals build_signals made of the events and
\* the outcomes the AI-likeness checks will have
InitTrust ==
    trust \in [ signals : BuiltSignals, outcomes : OutcomeLists, result : {None} ]

\* calculate_full_trust_score after build_signals
CalculateFullTrustScore ==
    /\ trust # None
    /\ trust.result = None
    /\ LET ai_likeness == get_ai_likeness_for_interview(trust.outcomes)
           signals == [trust.signals EXCEPT !.ai_likeness_score = ai_likeness]
           trust_score == calc_trust_score(signals)
       IN  trust' = [trust EXCEPT
                       !.signals = signals,
                       !.result = Some([ trust_score |-> trust_score,
                                         trust_status |-> get_trust_status(trust_score),
                                         trust_reasons |-> build_trust_explanation(signals) ])]
    /\ UNCHANGED <<qbVars, adaptiveVars, scoring, replay, grading, interviewVars>>

\* ------------------------------------------------- build_signals (replay)

\* Configuration constants
BIG_PASTE_THRESHOLD == 150
LONG_BLUR_MS == 60000
FAST_THRESHOLD_SEC == 60

\* event.meta: the keys build_signals reads, each present or missing
Meta(length, visible, opened) == [length |-> length, visible |-> visible, opened |-> opened]
NoMeta == Meta(None, None, None)

\* meta.get(key, default)
MetaGet(value, default) == IF value = None THEN default ELSE value[1]

\* the events a client sends, before they are given their time: pastes just
\* below and at the big-paste threshold, blur and focus, visibility changes
\* to hidden, to visible and without the key, devtools opened
EventTemplates ==
    { [event_type |-> "paste", meta |-> Meta(Some(BIG_PASTE_THRESHOLD - 1), None, None)],
      [event_type |-> "paste", meta |-> Meta(Some(BIG_PASTE_THRESHOLD), None, None)],
      [event_type |-> "blur", meta |-> NoMeta],
      [event_type |-> "focus", meta |-> NoMeta],
      [event_type |-> "visibility_change", meta |-> Meta(None, Some(FALSE), None)],
      [event_type |-> "visibility_change", meta |-> Meta(None, Some(TRUE), None)],
      [event_type |-> "visibility_change", meta |-> NoMeta],
      [event_type |-> "devtools", meta |-> Meta(None, None, Some(TRUE))] }

\* milliseconds between the created_at of one event and of the next
Gaps == {0, LONG_BLUR_MS - 1, LONG_BLUR_MS}

\* int(created_at.timestamp() * 1000) of the first event of an interview
FirstEventMs == LONG_BLUR_MS

\* the submissions of a task: passed_tests (None or a rate) and the seconds
\* between the task's created_at and the submission's
Submission(passed_tests, seconds) == [passed_tests |-> passed_tests, seconds |-> seconds]
FastPass == Submission(Some(Rat(4, 5)), FAST_THRESHOLD_SEC - 1)
SlowPass == Submission(Some(Rat(4, 5)), FAST_THRESHOLD_SEC)
FastFail == Submission(Some(Rat(79, 100)), FAST_THRESHOLD_SEC - 1)
Unjudged == Submission(None, FAST_THRESHOLD_SEC - 1)

Task(difficulty, status, submissions) ==
    [difficulty |-> difficulty, status |-> status, submissions |-> submissions]

\* the tasks of the interview as the second query of build_signals finds
\* them
TaskLists ==
    { <<>>,
      << Task("hard", "completed", <<SlowPass, FastPass>>) >>,
      << Task("middle", "completed", <<Unjudged, FastFail, FastPass>>) >>,
      << Task("hard", "active", <<FastPass>>) >>,
      << Task("medium", "completed", <<FastPass>>) >>,
      << Task("easy", "completed", <<FastPass>>) >> }

\* AntiCheatSignals()
DefaultSignals ==
    [ big_pastes_count |-> 0, pastes_after_long_blur |-> 0,
      suspiciously_fast_solutions |-> 0, devtools_opened |-> FALSE,
      ai_likeness_score |-> None, focus_lost_count |-> 0 ]

\* blur, or visibility_change with visible false (missing: true)
SetsBlurTime(event) ==
    \/ event.event_type = "blur"
    \/ event.event_type = "visibility_change" /\ ~MetaGet(event.meta.visible, TRUE)

\* focus, or visibility_change with visible true (missing: false)
ResetsBlurTime(event) ==
    \/ event.event_type = "focus"
    \/ event.event_type = "visibility_change" /\ MetaGet(event.meta.visible, FALSE)

\* blur_duration >= LONG_BLUR_MS
IsLongBlur(blur_duration) == blur_duration >= LONG_BLUR_MS

\* the reset on focus left out
BlurTimeNeverReset(event, last_blur_time) ==
    IF SetsBlurTime(event) THEN Some(event.created_at) ELSE last_blur_time

\* last_blur_time after the event
BlurTimeAfter(event, last_blur_time) ==
    LET set == IF SetsBlurTime(event) THEN Some(event.created_at) ELSE last_blur_time
    IN  IF ResetsBlurTime(event) THEN None ELSE set

\* one pass of the loop body: the signals and last_blur_time after an event
ReplayEvent(event, acc) ==
    LET last_blur_time == BlurTimeAfter(event, acc.last_blur_time)
        \* "and last_blur_time": None and 0 are both false
        blur_is_set == last_blur_time # None /\ last_blur_time[1] # 0
        big_paste ==
            event.event_type = "paste"
            /\ MetaGet(event.meta.length, 0) >= BIG_PASTE_THRESHOLD
        paste_after_long_blur ==
            event.event_type = "paste" /\ blur_is_set
            /\ IsLongBlur(event.created_at - last_blur_time[1])
        devtools == event.event_type = "devtools" /\ MetaGet(event.meta.opened, FALSE)
        focus_lost ==
            (IF event.event_type = "visibility_change" /\ ~MetaGet(event.meta.visible, TRUE)
             THEN 1 ELSE 0)
            + (IF event.event_type = "blur" THEN 1 ELSE 0)
    IN  [ last_blur_time |-> last_blur_time,
          signals |->
            [ acc.signals EXCEPT
                !.big_pastes_count = @ + (IF big_paste THEN 1 ELSE 0),
                !.pastes_after_long_blur = @ + (IF paste_after_long_blur THEN 1 ELSE 0),
                !.devtools_opened = @ \/ devtools,
                !.focus_lost_count = @ + focus_lost ] ]

RECURSIVE ReplayEvents(_, _)
ReplayEvents(events, acc) ==
    IF events = <<>> THEN acc
    ELSE ReplayEvents(Tail(events), ReplayEvent(Head(events), acc))

\* the first submission with passed_tests >= 0.8 decides, the others are
\* not looked at
RECURSIVE FirstPassIsFast(_)
FirstPassIsFast(submissions) ==
    IF submissions = <<>> THEN FALSE
    ELSE LET submission == Head(submissions)
         IN  IF submission.passed_tests # None
                /\ submission.passed_tests[1].num # 0
                /\ RatGeq(submission.passed_tests[1], Rat(4, 5))
             THEN submission.seconds < FAST_THRESHOLD_SEC
             ELSE FirstPassIsFast(Tail(submissions))

RECURSIVE CountFastSolutions(_)
CountFastSolutions(tasks) ==
    IF tasks = <<>> THEN 0
    ELSE LET task == Head(tasks)
         IN  (IF task.difficulty \in {"middle", "hard"} /\ task.status = "completed"
                 /\ task.submissions # <<>> /\ FirstPassIsFast(task.submissions)
              THEN 1 ELSE 0)
             + CountFastSolutions(Tail(tasks))

\* build_signals on the events in the order the query returned them
build_signals(events, tasks) ==
    IF events = <<>> THEN DefaultSignals
    ELSE LET replayed == ReplayEvents(events, [last_blur_time |-> None,
                                               signals |-> DefaultSignals])
         IN  [ replayed.signals EXCEPT
                 !.suspiciously_fast_solutions = CountFastSolutions(tasks) ]

\* order_by(created_at): the orders of the given rows that are sorted by
\* created_at (rows with equal created_at come in any order)
RECURSIVE OrdersOf(_, _)
OrdersOf(events, rows) ==
    IF rows = {} THEN { <<>> }
    ELSE LET earliest == { i \in rows :
                             \A j \in rows : events[i].created_at <= events[j].created_at }
         IN  UNION { { <<events[i]>> \o rest : rest \in OrdersOf(events, rows \ {i}) } :
                       i \in earliest }

ChronologicalOrders(events) == OrdersOf(events, DOMAIN events)

\* no events stored and no signals built
InitReplay == replay = [events |-> <<>>, result |-> None]

\* the events endpoint stores an event; created_at is the time of the insert
\* (the trust request is taken at the end of a history: every history is
\* the beginning of a longer one and is replayed as well)
StoreEvent(template, gap) ==
    /\ replay # None
    /\ replay.result = None
    /\ Len(replay.events) < MaxEvents
    /\ LET created_at ==
               IF replay.events = <<>> THEN FirstEventMs
               ELSE replay.events[Len(replay.events)].created_at + gap
           event == [event_type |-> template.event_type, meta |-> template.meta,
                     created_at |-> created_at]
       IN  replay' = [events |-> Append(replay.events, event), result |-> None]
    /\ UNCHANGED <<qbVars, adaptiveVars, scoring, trust, grading, interviewVars>>

\* build_signals on the stored events, with the tasks the interview has
BuildSignals(tasks) ==
    /\ replay # None
    /\ replay.result = None
    /\ \E queried \in ChronologicalOrders(replay.events) :
          replay' = [replay EXCEPT
                       !.result = Some([ queried |-> queried,
                                         signals |-> build_signals(queried, tasks) ])]
    /\ UNCHANGED <<qbVars, adaptiveVars, scoring, trust, grading, interviewVars>>

\* ------------------------------------------------------------- grading

\* GRADE_TO_INDEX and INDEX_TO_GRADE; strings that are transformed are
\* sequences of characters
Chars_intern == <<"i", "n", "t", "e", "r", "n">>
Chars_junior == <<"j", "u", "n", "i", "o", "r">>
Chars_middle == <<"m", "i", "d", "d", "l", "e">>
Chars_senior == <<"s", "e", "n", "i", "o", "r">>
Chars_plus == <<"p", "l", "u", "s">>
Chars_minus == <<"m", "i", "n", "u", "s">>
INDEX_TO_GRADE == <<Chars_intern, Chars_junior, Chars_middle, Chars_senior>>

\* the self-claimed grades tried: the four grades, a capitalised one, legacy
\* grades written with an underscore, a hyphen and a space, an unknown one
GradeStrings ==
    { Chars_intern, Chars_junior, Chars_middle, Chars_senior,
      <<"S", "e", "n", "i", "o", "r">>,
      Chars_junior \o <<"_">> \o Chars_plus,
      <<"M", "i", "d", "d", "l", "e", "-", "P", "l", "u", "s">>,
      Chars_senior \o <<" ">> \o Chars_minus,
      <<"l", "e", "a", "d">> }

UpperCaseLetters ==
    <<"A", "B", "C", "D", "E", "F", "G", "H", "I", "J", "K", "L", "M",
      "N", "O", "P", "Q", "R", "S", "T", "U", "V", "W", "X", "Y", "Z">>
LowerCaseLetters ==
    <<"a", "b", "c", "d", "e", "f", "g", "h", "i", "j", "k", "l", "m",
      "n", "o", "p", "q", "r", "s", "t", "u", "v", "w", "x", "y", "z">>

\* grade.lower().replace("-", "_").replace(" ", "_"), character by character
NormalizeChar(c) ==
    IF \E i \in DOMAIN UpperCaseLetters : UpperCaseLetters[i] = c
    THEN LowerCaseLetters[CHOOSE i \in DOMAIN UpperCaseLetters : UpperCaseLetters[i] = c]
    ELSE IF c = "-" \/ c = " " THEN "_"
    ELSE c

NormalizeGrade(grade) == [i \in DOMAIN grade |-> NormalizeChar(grade[i])]

grade_to_index(grade) ==
    LET grade_lower == NormalizeGrade(grade)
    IN  IF grade_lower \in { Chars_junior \o <<"_">> \o Chars_plus,
                             Chars_middle \o <<"_">> \o Chars_minus }
        THEN 1
        ELSE IF grade_lower \in { Chars_middle \o <<"_">> \o Chars_plus,
                                  Chars_senior \o <<"_">> \o Chars_minus }
        THEN 2
        ELSE IF \E i \in DOMAIN INDEX_TO_GRADE : INDEX_TO_GRADE[i] = grade_lower
        THEN (CHOOSE i \in DOMAIN INDEX_TO_GRADE : INDEX_TO_GRADE[i] = grade_lower) - 1
        ELSE 2

index_to_grade(index) == INDEX_TO_GRADE[Max(0, Min(3, index)) + 1]

experience_to_grade_index(years) ==
    IF RatLt(years, Rat(1, 2)) THEN 0
    ELSE IF RatLt(years, Rat(3, 2)) THEN 1
    ELSE IF RatLt(years, Rat(7, 2)) THEN 2
    ELSE 3

score_to_grade_index(score) ==
    IF RatLt(score, RatOfInt(30)) THEN 0
    ELSE IF RatLt(score, RatOfInt(50)) THEN 1
    ELSE IF RatLt(score, RatOfInt(75)) THEN 2
    ELSE 3

\* the weights of calc_start_grade_index used for the final grade
calc_final_grade_index_start_weights(exp_index, self_index, perf_index) ==
    Max(0, Min(3, RoundHalfEven(Rat(50 * exp_index + 30 * self_index + 20 * perf_index, 100))))

\* round(0.6 * perf_index + 0.25 * exp_index + 0.15 * self_index), clamped
calc_final_grade_index(exp_index, self_index, perf_index) ==
    Max(0, Min(3, RoundHalfEven(Rat(60 * perf_index + 25 * exp_index + 15 * self_index, 100))))

RECURSIVE SumTheoryScores(_)
SumTheoryScores(scores) ==
    IF scores = <<>> THEN RatOfInt(0)
    ELSE RatAdd(Head(scores), SumTheoryScores(Tail(scores)))

\* calculate_theory_score on the scores of the answers
calculate_theory_score(scores) ==
    IF scores = <<>> THEN RatOfInt(0)
    ELSE RatMin(RatOfInt(100),
                RatMax(RatOfInt(0),
                       RatMul(RatDivInt(SumTheoryScores(scores), Len(scores)),
                              RatOfInt(100))))

\* years of experience, in half years
Years == { Rat(h, 2) : h \in 0..MaxYearsHalves }

\* TaskResult values as get_task_result_from_db builds them: the difficulty
\* normalised to easy, middle or hard
GradedTask(df, passed, hints_hard) ==
    [ difficulty |-> df,
      visible_passed |-> passed, visible_total |-> MaxGradedTests,
      hidden_passed |-> 0, hidden_total |-> 0,
      hints_soft |-> 0, hints_medium |-> 0, hints_hard |-> hints_hard ]

GradedTasks ==
    { GradedTask(df, passed, hints_hard) :
        df \in Levels, passed \in 0..MaxGradedTests, hints_hard \in 0..1 }

GradedTaskLists ==
    { <<>> } \cup { <<r>> : r \in GradedTasks }
             \cup { <<r, GradedTask("easy", MaxGradedTests, 0)>> : r \in GradedTasks }

\* TheoryAnswer.score as grade_theory_answer gives it: 0.0, 0.5 or 1.0
TheoryScores == { RatOfInt(0), Rat(1, 2), RatOfInt(1) }

TheoryAnswerLists == UNION { [1..n -> TheoryScores] : n \in 0..MaxTheoryAnswers }

\* the arguments of FinalGradeCalculation, nothing calculated yet
InitGrading ==
    grading \in [ years_of_experience : Years,
                  self_claimed_grade : GradeStrings,
                  task_results : GradedTaskLists,
                  theory_answers : TheoryAnswerLists,
                  calc : {None} ]

\* FinalGradeCalculation.__init__: the fields, or the exception of
\* calculate_coding_score
FinalGradeCalculation(years_of_experience, self_claimed_grade, task_results, theory_answers) ==
    LET exp_index == experience_to_grade_index(years_of_experience)
        self_index == grade_to_index(self_claimed_grade)
        coding == calculate_coding_score(task_results)
    IN  IF coding.raised # "" THEN Raised(coding.raised)
        ELSE LET coding_score == coding.value[1]
                 theory_score == calculate_theory_score(theory_answers)
                 overall_score == RatAdd(RatMul(Rat(7, 10), coding_score),
                                         RatMul(Rat(3, 10), theory_score))
                 perf_index == score_to_grade_index(overall_score)
                 final_grade_index == calc_final_grade_index(exp_index, self_index, perf_index)
             IN  Returned([ exp_index |-> exp_index,
                            self_index |-> self_index,
                            coding_score |-> coding_score,
                            theory_score |-> theory_score,
                            overall_score |-> overall_score,
                            perf_index |-> perf_index,
                            final_grade_index |-> final_grade_index,
                            final_grade |-> index_to_grade(final_grade_index) ])

CalculateFinalGrade ==
    /\ grading # None
    /\ grading.calc = None
    /\ grading' = [grading EXCEPT !.calc =
                     Some(FinalGradeCalculation(grading.years_of_experience,
                                                grading.self_claimed_grade,
                                                grading.task_results,
                                                grading.theory_answers))]
    /\ UNCHANGED <<qbVars, adaptiveVars, scoring, trust, replay, interviewVars>>

\* ------------------------------------------------------- start grade

\* calc_start_grade_index: resume_index is None or an index
calc_start_grade_index(exp_index, self_index, resume_index) ==
    LET resume == IF resume_index = None THEN self_index ELSE resume_index[1]
        grade_index == RoundHalfEven(Rat(5 * exp_index + 3 * self_index + 2 * resume, 10))
    IN  Max(0, Min(3, grade_index))

\* the resume grades tried: none, and each of the grade strings
ResumeGrades == {None} \cup {Some(g) : g \in GradeStrings}

\* Python's truth value of an Optional[str]: None and "" are false
IsTruthyStr(s) == s # None /\ Len(s[1]) > 0

\* Python's `x or y` on an Optional[int]: None and 0 are false
OrElse(x, y) == IF x = None \/ x[1] = 0 THEN y ELSE x[1]

calculate_start_grade(years_of_experience, self_claimed_grade, resume_grade) ==
    LET exp_index == experience_to_grade_index(years_of_experience)
        self_index == grade_to_index(self_claimed_grade)
        resume_index == IF IsTruthyStr(resume_grade)
                        THEN Some(grade_to_index(resume_grade[1])) ELSE None
        start_index == calc_start_grade_index(exp_index, self_index, resume_index)
    IN  [ start_grade |-> index_to_grade(start_index),
          start_grade_index |-> start_index,
          exp_index |-> exp_index,
          self_index |-> self_index,
          resume_index |-> OrElse(resume_index, self_index) ]

InitStartGrade ==
    start \in [ years_of_experience : Years,
                self_claimed_grade : GradeStrings,
                resume_grade : ResumeGrades,
                result : {None} ]

CalculateStartGrade ==
    /\ start # None
    /\ start.result = None
    /\ start' = [start EXCEPT !.result =
                   Some(calculate_start_grade(start.years_of_experience,
                                              start.self_claimed_grade,
                                              start.resume_grade))]
    /\ UNCHANGED exceptStart

\* ------------------------------------------------- next-task progression

\* the endpoints refuse a fourth task
MAX_TASKS == 3

difficulty_order == <<"easy", "medium", "hard">>
levels == <<"intern", "junior", "middle", "senior">>

\* list.index: the 0-based position of x in s, None when x is absent (Python
\* raises ValueError)
IndexIn(s, x) ==
    IF \E i \in 1..Len(s) : s[i] = x
    THEN Some((CHOOSE i \in 1..Len(s) : s[i] = x) - 1)
    ELSE None

\* level_to_difficulty.get(selected_level, "medium")
level_to_difficulty(selected_level) ==
    CASE selected_level \in {"intern", "junior"} -> "easy"
      [] selected_level = "senior" -> "hard"
      [] OTHER -> "medium"

\* the scores a task can have: none yet, 0, and scores around the thresholds
ActualScores == {None, Some(0), Some(30), Some(35), Some(70)}

PoolTasks == [difficulty : {"easy", "medium", "hard"}, actual_score : ActualScores]

\* the tasks with a positive score, in order
RECURSIVE Completed(_)
Completed(tasks) ==
    IF tasks = <<>> THEN <<>>
    ELSE LET t == Head(tasks)
         IN  IF t.actual_score # None /\ t.actual_score[1] > 0
             THEN <<t>> \o Completed(Tail(tasks))
             ELSE Completed(Tail(tasks))

RECURSIVE SumActualScores(_)
SumActualScores(tasks) ==
    IF tasks = <<>> THEN 0
    ELSE Head(tasks).actual_score[1] + SumActualScores(Tail(tasks))

\* avg_score of a non-empty list of completed tasks
AvgScore(completed) == Rat(SumActualScores(completed), Len(completed))

LowerThreshold == RatOfInt(40)
RaiseThreshold == RatOfInt(70)

\* the index chosen from the average and the index of the last difficulty
NextIdx(avg_score, current_idx) ==
    IF RatGeq(avg_score, RaiseThreshold) THEN Min(current_idx + 1, 2)
    ELSE IF RatLt(avg_score, LowerThreshold) THEN Max(current_idx - 1, 0)
    ELSE current_idx

\* the difficulty both endpoints compute for the next task
next_difficulty(selected_level, previous_tasks) ==
    IF previous_tasks = <<>> THEN level_to_difficulty(selected_level)
    ELSE LET completed == Completed(previous_tasks)
         IN  IF completed = <<>> THEN "medium"
             ELSE LET last_difficulty == previous_tasks[Len(previous_tasks)].difficulty
                      found == IndexIn(difficulty_order, last_difficulty)
                      current_idx == IF found = None THEN 1 ELSE found[1]
                  IN  difficulty_order[NextIdx(AvgScore(completed), current_idx) + 1]

\* whether generate_next_task reaches the update of effective_level
Upgrades(previous_tasks) ==
    /\ previous_tasks # <<>>
    /\ Completed(previous_tasks) # <<>>
    /\ RatGeq(AvgScore(Completed(previous_tasks)), RaiseThreshold)
    /\ previous_tasks[Len(previous_tasks)].difficulty # "hard"

\* the stored ai_style_score of the interview's cheat signals
AiStyleScores == {Rat(1, 10), Rat(9, 10)}

\* the levels a candidate selects; "middle+" is none of `levels`
SelectedLevels == {"intern", "junior", "middle", "middle+", "senior"}

\* an interview as create_interview stores it (effective_level is the
\* selected level) or as the v2 start stores it (no effective_level), with
\* up to MAX_TASKS tasks
InitProgression ==
    \E n \in 0..MAX_TASKS, selected_level \in SelectedLevels :
        progression \in [ selected_level : {selected_level},
                          effective_level : {None, Some(selected_level)},
                          ai_style_score : AiStyleScores,
                          previous_tasks : [1..n -> PoolTasks],
                          call : {None} ]

\* what a call leaves: the endpoint, the difficulty it computed (None when
\* it did not get that far) and the exception it ended with
CallOf(endpoint, difficulty, raised) ==
    Some([endpoint |-> endpoint, next_difficulty |-> difficulty, raised |-> raised])

\* POST /{interview_id}/next-task. generate_adaptive_task has no parameter
\* generate_opening_question, so the call that would create the task raises
\* TypeError after the difficulty was computed and effective_level committed
GenerateNextTask ==
    /\ progression # None
    /\ LET p == progression
           tasks == p.previous_tasks
           current_level == IF p.effective_level # None THEN p.effective_level[1]
                            ELSE p.selected_level
           current_level_idx == IndexIn(levels, current_level)
       IN  IF Len(tasks) >= MAX_TASKS
           THEN progression' = [p EXCEPT !.call = CallOf("next-task", None, "HTTPException")]
           ELSE IF Upgrades(tasks) /\ current_level_idx = None
           THEN progression' = [p EXCEPT !.call = CallOf("next-task", None, "ValueError")]
           ELSE progression' =
                    [p EXCEPT !.effective_level =
                                  IF Upgrades(tasks) /\ current_level_idx[1] < Len(levels) - 1
                                  THEN Some(levels[current_level_idx[1] + 2])
                                  ELSE @,
                              !.call = CallOf("next-task",
                                              Some(next_difficulty(p.selected_level, tasks)),
                                              "TypeError")]
    /\ UNCHANGED exceptProgression

\* POST /{interview_id}/next-task/with-meta: the same difficulty, no update
\* of effective_level
GenerateNextTaskWithMeta ==
    /\ progression # None
    /\ LET p == progression
           tasks == p.previous_tasks
       IN  IF Len(tasks) >= MAX_TASKS
           THEN progression' = [p EXCEPT !.call = CallOf("with-meta", None, "HTTPException")]
           ELSE progression' =
                    [p EXCEPT !.call = CallOf("with-meta",
                                              Some(next_difficulty(p.selected_level, tasks)),
                                              "TypeError")]
    /\ UNCHANGED exceptProgression

\* ------------------------------------------------------ hiring decision

\* CheatSignals; the two scores lie around the limits the gates compare with
CheatSignalRecords ==
    [ copy_paste_count : 0..MaxCopyPastes,
      devtools_opened : BOOLEAN,
      focus_lost_count : {0, MaxFocusLost},
      ai_style_score : {Rat(2, 5), Rat(1, 2), Rat(7, 10), Rat(4, 5)},
      code_similarity_score : {Rat(4, 5), Rat(9, 10)} ]

\* should_auto_reject, without its reason
should_auto_reject(cheat) ==
    \/ RatLt(Rat(7, 10), cheat.ai_style_score)
    \/ cheat.copy_paste_count > 3
    \/ /\ RatLt(Rat(1, 2), cheat.ai_style_score)
       /\ RatLt(Rat(4, 5), cheat.code_similarity_score)

BoolToInt(b) == IF b THEN 1 ELSE 0

\* should_cap_grade, without its reason
should_cap_grade(cheat) ==
    LET moderate_signals ==
            BoolToInt(RatLt(Rat(2, 5), cheat.ai_style_score))
            + BoolToInt(cheat.copy_paste_count > 2)
            + BoolToInt(cheat.devtools_opened)
            + BoolToInt(cheat.focus_lost_count > 5)
    IN  moderate_signals >= 2

\* GRADE_THRESHOLDS, in the order of the dict
GRADE_THRESHOLDS ==
    << [grade |-> "senior", threshold |-> 85],
       [grade |-> "middle+", threshold |-> 75],
       [grade |-> "middle", threshold |-> 60],
       [grade |-> "junior+", threshold |-> 45],
       [grade |-> "junior", threshold |-> 30],
       [grade |-> "intern", threshold |-> 0] >>

\* score_to_grade: the first grade whose threshold the score reaches
score_to_grade(score) ==
    IF \E i \in 1..Len(GRADE_THRESHOLDS) : score >= GRADE_THRESHOLDS[i].threshold
    THEN LET first == CHOOSE i \in 1..Len(GRADE_THRESHOLDS) :
                          /\ score >= GRADE_THRESHOLDS[i].threshold
                          /\ \A j \in 1..(i - 1) : score < GRADE_THRESHOLDS[j].threshold
         IN  GRADE_THRESHOLDS[first].grade
    ELSE "intern"

\* the cap of determine_decision
CappedGradeOnlySenior(base_grade) ==
    IF base_grade = "senior" THEN "middle" ELSE base_grade

CappedGrade(base_grade) ==
    IF base_grade \in {"senior", "middle+"} THEN "middle" ELSE base_grade

Decision(decision_made, grade, capped, auto_rejected) ==
    [ decision |-> decision_made, grade |-> grade,
      capped |-> capped, auto_rejected |-> auto_rejected ]

\* determine_decision, without the reason text
determine_decision(total_score, thresholds, cheat) ==
    IF should_auto_reject(cheat) THEN Decision("REJECT", "rejected", FALSE, TRUE)
    ELSE LET should_cap == should_cap_grade(cheat)
             base_grade == IF should_cap THEN CappedGrade(score_to_grade(total_score))
                           ELSE score_to_grade(total_score)
         IN  IF should_cap /\ total_score >= thresholds.hire
             THEN Decision("CONSIDER", base_grade, TRUE, FALSE)
             ELSE IF total_score >= thresholds.hire
             THEN Decision("HIRE", base_grade, FALSE, FALSE)
             ELSE IF total_score >= thresholds.consider
             THEN Decision("CONSIDER", base_grade, FALSE, FALSE)
             ELSE Decision("REJECT", base_grade, FALSE, FALSE)

\* total scores around the grade thresholds and the decision thresholds
TotalScores == {0, 29, 30, 49, 50, 74, 75, 85, 100}

\* DecisionThresholds: the defaults, and pairs in every order
ThresholdPairs == [hire : {0, 75, 100}, consider : {50, 90}]

InitDecision ==
    decision \in [ total_score : TotalScores,
                   thresholds : ThresholdPairs,
                   cheat : CheatSignalRecords,
                   result : {None} ]

DetermineDecision ==
    /\ decision # None
    /\ decision.result = None
    /\ decision' = [decision EXCEPT !.result =
                      Some(determine_decision(decision.total_score,
                                              decision.thresholds,
                                              decision.cheat))]
    /\ UNCHANGED exceptDecision

\* ---------------------------------------------------------- coding task

\* round(x, 2)
Round2(x) == Rat(RoundHalfEven(RatMul(x, RatOfInt(100))), 100)

\* services/adaptive.py calculate_task_score: visible tests are worth 60%,
\* hidden tests 40% of max_score
submission_score(passed_visible, total_visible, passed_hidden, total_hidden, max_score) ==
    IF total_visible = 0 /\ total_hidden = 0 THEN RatOfInt(0)
    ELSE LET visible_score == IF total_visible > 0
                              THEN RatMul(Rat(passed_visible, total_visible), Rat(6, 10))
                              ELSE RatOfInt(0)
             hidden_score == IF total_hidden > 0
                             THEN RatMul(Rat(passed_hidden, total_hidden), Rat(4, 10))
                             ELSE RatOfInt(0)
         IN  Round2(RatMul(RatAdd(visible_score, hidden_score), RatOfInt(max_score)))

\* penalties.get(hint_level, 10)
HintLevels == {"light", "medium", "heavy", "unknown"}
HintLevelPenalty(hint_level) ==
    CASE hint_level = "medium" -> 25
      [] hint_level = "heavy" -> 40
      [] OTHER -> 10

\* the cut of max_score after a failed submission
AutoHintReduction(max_score) ==
    IF max_score > 25 THEN Max(10, max_score - 15) ELSE max_score

\* whether a submission's score replaces the task's actual_score
IsBest(score, actual_score) ==
    actual_score = None \/ RatLt(actual_score[1], score)

\* a task as generate_adaptive_task creates it
InitCodingTask ==
    coding_task \in [ total_visible : 0..MaxTaskVisible,
                      total_hidden : 0..MaxTaskHidden,
                      max_score : {100},
                      actual_score : {None},
                      status : {"active"},
                      submissions : {0},
                      hints : {0},
                      last : {None} ]

LastCall(op, all_visible_passed, error) ==
    Some([op |-> op, all_visible_passed |-> all_visible_passed, error |-> error])

\* POST /submit with the test counts run_code returns; blank_code is whether
\* the submitted code is empty after strip()
SubmitCode(passed_visible, passed_hidden, blank_code) ==
    /\ coding_task # None
    /\ coding_task.submissions < MaxSubmissions
    /\ passed_visible <= coding_task.total_visible
    /\ passed_hidden <= coding_task.total_hidden
    /\ LET t == coding_task
           all_visible_passed == passed_visible = t.total_visible /\ t.total_visible > 0
           max_score == IF ~all_visible_passed /\ ~blank_code
                        THEN AutoHintReduction(t.max_score) ELSE t.max_score
           score == submission_score(passed_visible, t.total_visible,
                                     passed_hidden, t.total_hidden, max_score)
           best == IsBest(score, t.actual_score)
       IN  coding_task' =
               [t EXCEPT !.max_score = max_score,
                         !.actual_score = IF best THEN Some(score) ELSE @,
                         !.status = IF best /\ all_visible_passed THEN "completed" ELSE @,
                         !.submissions = @ + 1,
                         !.last = LastCall("submit", all_visible_passed, None)]
    /\ UNCHANGED exceptCodingTask

\* POST /submit when run_code raises: HTTP 500, nothing stored
SubmitCodeFails ==
    /\ coding_task # None
    /\ coding_task.submissions < MaxSubmissions
    /\ coding_task' = [coding_task EXCEPT !.submissions = @ + 1,
                                          !.last = LastCall("submit", FALSE, Some(500))]
    /\ UNCHANGED exceptCodingTask

\* POST /hint: max_score loses the penalty of the level, without a floor
RequestHint(hint_level) ==
    /\ coding_task # None
    /\ coding_task.hints < MaxHintRequests
    /\ coding_task' = [coding_task EXCEPT !.max_score = @ - HintLevelPenalty(hint_level),
                                          !.hints = @ + 1,
                                          !.last = LastCall("hint", FALSE, None)]
    /\ UNCHANGED exceptCodingTask

\* POST /hint when the hint generation raises: HTTP 500, nothing stored
RequestHintFails ==
    /\ coding_task # None
    /\ coding_task.hints < MaxHintRequests
    /\ coding_task' = [coding_task EXCEPT !.hints = @ + 1,
                                          !.last = LastCall("hint", FALSE, Some(500))]
    /\ UNCHANGED exceptCodingTask

\* ------------------------------------- concurrent requests on one record

\* the record the concurrent requests address
TargetId == 1

RequestIds == 1..NumRequests

\* a request slot before any request
IdleRequest ==
    [ op |-> "none", evaluation_score |-> None, pc |-> "idle",
      status_read |-> "", version_read |-> 0, result |-> "none" ]

\* version counts the committed writes to the record (history)
InitRequests ==
    requests = [ version |-> 0, issued |-> 0,
                 slots |-> [r \in RequestIds |-> IdleRequest] ]

SetSlot(r, slot) == [requests EXCEPT !.slots[r] = slot]

\* a submit_answer or retry_answer call arrives for the record
IssueRequest(r, op, evaluation_score) ==
    /\ requests # None
    /\ requests.slots[r].pc \in {"idle", "done"}
    /\ requests.issued < MaxIssued
    /\ op = "retry" => evaluation_score = None
    /\ requests' = [requests EXCEPT
                       !.issued = @ + 1,
                       !.slots[r] = [IdleRequest EXCEPT !.op = op,
                                                        !.evaluation_score = evaluation_score,
                                                        !.pc = "read"]]
    /\ UNCHANGED <<qbVars, adaptiveVars, scoring, trust, replay, grading,
                   start, progression, decision, coding_task, final>>

\* db.query(QuestionAnswer)...first(): the request loads the row
ReadStatus(r) ==
    /\ requests # None
    /\ requests.slots[r].pc = "read"
    /\ requests' = SetSlot(r, [requests.slots[r] EXCEPT
                                  !.status_read = answers[TargetId].status,
                                  !.version_read = requests.version,
                                  !.pc = "check"])
    /\ UNCHANGED <<qbVars, adaptiveVars, scoring, trust, replay, grading,
                   start, progression, decision, coding_task, final>>

\* the status check of submit_answer and of retry_answer, on the row loaded
CheckStatus(r) ==
    /\ requests # None
    /\ requests.slots[r].pc = "check"
    /\ LET slot == requests.slots[r]
           row == [status |-> slot.status_read]
           passes == IF slot.op = "submit" THEN IsPending(row) ELSE IsAnswered(row)
           error == IF slot.op = "submit" THEN "Question already answered or skipped"
                    ELSE "Can only retry answered questions"
       IN  IF passes
           THEN /\ requests' = SetSlot(r, [slot EXCEPT !.pc = "write"])
                /\ UNCHANGED last_call
           ELSE /\ requests' = SetSlot(r, [slot EXCEPT !.pc = "done", !.result = "rejected"])
                /\ last_call' = Call(slot.op, TargetId, slot.evaluation_score, Some(error))
    /\ UNCHANGED <<answers, block, accepted_retries, evaluations, adaptiveVars,
                   scoring, trust, replay, grading,
                   start, progression, decision, coding_task, final>>

\* the assignments and db.commit() of submit_answer and of retry_answer
WriteAndCommit(r) ==
    /\ requests # None
    /\ requests.slots[r].pc = "write"
    /\ LET slot == requests.slots[r]
       IN  /\ requests' = [requests EXCEPT
                              !.version = @ + 1,
                              !.slots[r] = [slot EXCEPT !.pc = "done", !.result = "accepted"]]
           /\ last_call' = Call(slot.op, TargetId, slot.evaluation_score, None)
           /\ IF slot.op = "submit"
              THEN LET rows == [answers EXCEPT ![TargetId] =
                                   SubmittedRow(@, slot.evaluation_score)]
                   IN  /\ answers' = rows
                       /\ block' = AdvanceBlock([block EXCEPT !.total_answered = @ + 1], rows)
                       /\ UNCHANGED <<accepted_retries, evaluations>>
              ELSE /\ answers' = [answers EXCEPT ![TargetId] = RetriedRow(@)]
                   /\ evaluations' = [evaluations EXCEPT ![TargetId] = NoEvaluation]
                   /\ block' = [block EXCEPT !.total_answered = DecrementAnswered(@)]
                   /\ accepted_retries' = [accepted_retries EXCEPT ![TargetId] = @ + 1]
    /\ UNCHANGED <<adaptiveVars, scoring, trust, replay, grading,
                   start, progression, decision, coding_task, final>>

\* ------------------------------------------- final grade of an interview

\* a Submission row: the columns of the model, which has no test_results
SubmissionRow(passed_visible, passed_hidden, task_visible, task_hidden) ==
    [ passed_visible |-> passed_visible, total_visible |-> task_visible,
      passed_hidden |-> passed_hidden, total_hidden |-> task_hidden ]

\* hasattr(last_submission, 'test_results') and last_submission.test_results
HasTestResults(submission) ==
    /\ "test_results" \in DOMAIN submission
    /\ submission.test_results # None

\* a Task row with its hints (their levels) and its submissions
DbTask(difficulty, hints, submissions) ==
    [ difficulty |-> difficulty,
      visible_tests |-> MaxTaskVisible,
      hidden_tests |-> MaxTaskHidden,
      hints |-> hints,
      submissions |-> submissions ]

\* the tasks tried: no submission, one that passes nothing, one that passes
\* every visible and hidden test after a failed one; no hint or a medium hint
DbTasks ==
    { DbTask(difficulty, hints, submissions) :
        difficulty \in {"easy", "medium", "hard"},
        hints \in {<<>>, <<"medium">>},
        submissions \in
            { <<>>,
              <<SubmissionRow(0, 0, MaxTaskVisible, MaxTaskHidden)>>,
              <<SubmissionRow(0, 0, MaxTaskVisible, MaxTaskHidden),
                SubmissionRow(MaxTaskVisible, MaxTaskHidden,
                              MaxTaskVisible, MaxTaskHidden)>> } }

CountLevel(hints, hint_level) ==
    Cardinality({i \in 1..Len(hints) : hints[i] = hint_level})

\* get_task_result_from_db
get_task_result_from_db(t) ==
    LET last_submission == IF t.submissions # <<>>
                           THEN Some(t.submissions[Len(t.submissions)]) ELSE None
        parsed == last_submission # None /\ HasTestResults(last_submission[1])
        results == IF parsed THEN last_submission[1].test_results[1]
                   ELSE [visible_passed |-> 0, visible_total |-> 0,
                         hidden_passed |-> 0, hidden_total |-> 0]
        visible_total == IF results.visible_total = 0 /\ t.visible_tests > 0
                         THEN t.visible_tests ELSE results.visible_total
        hidden_total == IF results.hidden_total = 0 /\ t.hidden_tests > 0
                        THEN t.hidden_tests ELSE results.hidden_total
        normalized_difficulty == IF t.difficulty \in {"easy", "middle", "hard"}
                                 THEN t.difficulty ELSE "middle"
    IN  [ difficulty |-> normalized_difficulty,
          visible_passed |-> results.visible_passed,
          visible_total |-> visible_total,
          hidden_passed |-> results.hidden_passed,
          hidden_total |-> hidden_total,
          hints_soft |-> CountLevel(t.hints, "soft"),
          hints_medium |-> CountLevel(t.hints, "medium"),
          hints_hard |-> CountLevel(t.hints, "hard") ]

\* interview.years_of_experience or 2.0
YearsOrDefault(years) ==
    IF years = None \/ years[1].num = 0 THEN RatOfInt(2) ELSE years[1]

\* Interview.years_of_experience: not set, 0, and 3.5 years
InterviewYears == {None, Some(RatOfInt(0)), Some(Rat(7, 2))}

\* Interview.selected_level
InterviewLevels == {Chars_junior, Chars_senior}

\* a completed interview with up to MAX_TASKS tasks
InitFinal ==
    \E n \in 0..MAX_TASKS :
        final \in [ years_of_experience : InterviewYears,
                    selected_level : InterviewLevels,
                    tasks : [1..n -> DbTasks],
                    overall_score : {None},
                    overall_grade : {None},
                    calc : {None} ]

\* calculate_final_grade_for_interview: theory_answers is always the empty
\* list
CalculateFinalGradeForInterview ==
    /\ final # None
    /\ final.calc = None
    /\ LET task_results == [i \in 1..Len(final.tasks) |->
                               get_task_result_from_db(final.tasks[i])]
           calc == FinalGradeCalculation(YearsOrDefault(final.years_of_experience),
                                         final.selected_level, task_results, <<>>)
       IN  final' = IF calc.raised # ""
                    THEN [final EXCEPT !.calc = Some(calc)]
                    ELSE [final EXCEPT !.overall_score = Some(calc.value[1].overall_score),
                                       !.overall_grade = Some(calc.value[1].final_grade),
                                       !.calc = Some(calc)]
    /\ UNCHANGED exceptFinal

\* ---------------------------------------------------------- specifications

\* no call of the interview endpoints under way
StartIdle == start = None
ProgressionIdle == progression = None
DecisionIdle == decision = None
CodingTaskIdle == coding_task = None
FinalIdle == final = None
RequestsIdle == requests = None

InitInterviewIdle ==
    /\ StartIdle /\ ProgressionIdle /\ DecisionIdle
    /\ CodingTaskIdle /\ FinalIdle /\ RequestsIdle

\* no trust request, no replay and no grade calculation under way

InitRestIdle == trust = None /\ replay = None /\ grading = None /\ InitInterviewIdle

Init == InitBlock /\ InitAdaptiveIdle /\ InitScoringIdle /\ InitRestIdle

Next ==
    \/ \E id \in AnswerIds \cup {UnknownId}, e \in EvalScores : SubmitAnswer(id, e)
    \/ \E id \in AnswerIds \cup {UnknownId} : SkipQuestion(id)
    \/ \E id \in AnswerIds \cup {UnknownId} : RetryAnswer(id)

\* the question block service
Spec == Init /\ [][Next]_vars

NextAdaptive == \E user_clicked_next \in BOOLEAN : UpdateLevelAfterTask(user_clicked_next)

\* the adaptive engine, on every level and every TaskResult within the bounds
InitAdaptiveSpec == InitBlock /\ InitAdaptive /\ InitScoringIdle /\ InitRestIdle

SpecAdaptive == InitAdaptiveSpec /\ [][NextAdaptive]_vars

NextScoring == CalculateTaskScore \/ CalculateCodingScore

\* the scoring functions, on every task list within the bounds
InitScoringSpec == InitBlock /\ InitAdaptiveIdle /\ InitScoring /\ InitRestIdle

SpecScoring == InitScoringSpec /\ [][NextScoring]_vars

NextTrust == CalculateFullTrustScore

\* the trust score, on every signal record and every list of check outcomes
\* within the bounds
InitTrustSpec ==
    /\ InitBlock /\ InitAdaptiveIdle /\ InitScoringIdle
    /\ InitTrust /\ replay = None /\ grading = None /\ InitInterviewIdle

SpecTrust == InitTrustSpec /\ [][NextTrust]_vars

NextReplay ==
    \/ \E template \in EventTemplates, gap \in Gaps : StoreEvent(template, gap)
    \/ \E tasks \in TaskLists : BuildSignals(tasks)

\* the event store and build_signals
InitReplaySpec ==
    /\ InitBlock /\ InitAdaptiveIdle /\ InitScoringIdle
    /\ trust = None /\ InitReplay /\ grading = None /\ InitInterviewIdle

SpecReplay == InitReplaySpec /\ [][NextReplay]_vars

NextGrading == CalculateFinalGrade

\* the final grade, on every combination of arguments within the bounds
InitGradingSpec ==
    /\ InitBlock /\ InitAdaptiveIdle /\ InitScoringIdle
    /\ trust = None /\ replay = None /\ InitGrading /\ InitInterviewIdle

SpecGrading == InitGradingSpec /\ [][NextGrading]_vars

NextStartGrade == CalculateStartGrade

\* the start grade, on every combination of arguments within the bounds
InitStartGradeSpec ==
    /\ InitBlock /\ InitAdaptiveIdle /\ InitScoringIdle
    /\ trust = None /\ replay = None /\ grading = None
    /\ InitStartGrade /\ ProgressionIdle /\ DecisionIdle
    /\ CodingTaskIdle /\ FinalIdle /\ RequestsIdle

SpecStartGrade == InitStartGradeSpec /\ [][NextStartGrade]_vars

NextProgression == GenerateNextTask \/ GenerateNextTaskWithMeta

\* the next-task endpoints, on every interview within the bounds
InitProgressionSpec ==
    /\ InitBlock /\ InitAdaptiveIdle /\ InitScoringIdle
    /\ trust = None /\ replay = None /\ grading = None
    /\ StartIdle /\ InitProgression /\ DecisionIdle
    /\ CodingTaskIdle /\ FinalIdle /\ RequestsIdle

SpecProgression == InitProgressionSpec /\ [][NextProgression]_vars

NextDecision == DetermineDecision

\* the hiring decision, on every score, threshold pair and cheat signals
\* within the bounds
InitDecisionSpec ==
    /\ InitBlock /\ InitAdaptiveIdle /\ InitScoringIdle
    /\ trust = None /\ replay = None /\ grading = None
    /\ StartIdle /\ ProgressionIdle /\ InitDecision
    /\ CodingTaskIdle /\ FinalIdle /\ RequestsIdle

SpecDecision == InitDecisionSpec /\ [][NextDecision]_vars

NextCodingTask ==
    \/ \E passed_visible \in 0..MaxTaskVisible, passed_hidden \in 0..MaxTaskHidden,
          blank_code \in BOOLEAN :
           SubmitCode(passed_visible, passed_hidden, blank_code)
    \/ SubmitCodeFails
    \/ \E hint_level \in HintLevels : RequestHint(hint_level)
    \/ RequestHintFails

\* submissions and hint requests on one coding task
InitCodingTaskSpec ==
    /\ InitBlock /\ InitAdaptiveIdle /\ InitScoringIdle
    /\ trust = None /\ replay = None /\ grading = None
    /\ StartIdle /\ ProgressionIdle /\ DecisionIdle
    /\ InitCodingTask /\ FinalIdle /\ RequestsIdle

SpecCodingTask == InitCodingTaskSpec /\ [][NextCodingTask]_vars

NextEndpoints ==
    \/ \E id \in AnswerIds \cup {UnknownId}, evaluation \in LlmOutcomes :
           AnswerQuestion(id, evaluation)
    \/ \E id \in AnswerIds \cup {UnknownId} : SkipQuestion(id)
    \/ \E id \in AnswerIds \cup {UnknownId} : RetryAnswer(id)

\* the endpoints of the question block: POST /answer, /skip and /retry
SpecEndpoints == Init /\ [][NextEndpoints]_vars

NextConcurrent ==
    \/ \E r \in RequestIds, evaluation_score \in EvalScores :
           IssueRequest(r, "submit", evaluation_score)
    \/ \E r \in RequestIds : IssueRequest(r, "retry", None)
    \/ \E r \in RequestIds : ReadStatus(r)
    \/ \E r \in RequestIds : CheckStatus(r)
    \/ \E r \in RequestIds : WriteAndCommit(r)

\* requests on one record, interleaved between the load of the row, the
\* status check and the commit
InitConcurrentSpec ==
    /\ InitBlock /\ InitAdaptiveIdle /\ InitScoringIdle
    /\ trust = None /\ replay = None /\ grading = None
    /\ StartIdle /\ ProgressionIdle /\ DecisionIdle
    /\ CodingTaskIdle /\ FinalIdle /\ InitRequests

SpecConcurrent == InitConcurrentSpec /\ [][NextConcurrent]_vars

NextFinal == CalculateFinalGradeForInterview

\* the final grade of an interview, on every interview within the bounds
InitFinalSpec ==
    /\ InitBlock /\ InitAdaptiveIdle /\ InitScoringIdle
    /\ trust = None /\ replay = None /\ grading = None
    /\ StartIdle /\ ProgressionIdle /\ DecisionIdle
    /\ CodingTaskIdle /\ InitFinal /\ RequestsIdle

SpecFinal == InitFinalSpec /\ [][NextFinal]_vars

\* ------------------------------------------- claims: retry score decay

Accepted(op) == last_call.op = op /\ last_call.error = None
Rejected(op) == last_call.op = op /\ last_call.error # None

\* C1: in every reachable state each question-answer record has
\* score_multiplier = 1 / 2^(attempt_number - 1), and after n accepted
\* retries attempt_number = n + 1 and score_multiplier = 0.5^n.
C1_MultiplierIsHalvedPerAttempt ==
    \A i \in AnswerIds :
        LET a == answers[i]
            n == accepted_retries[i]
        IN /\ a.attempt_number = n + 1
           /\ a.score_multiplier.num * Pow2(a.attempt_number - 1) = a.score_multiplier.den
           /\ a.score_multiplier.num * Pow2(n) = a.score_multiplier.den
           /\ n = 0 => a.score_multiplier = [num |-> 1, den |-> 1]
           /\ n = 1 => a.score_multiplier = [num |-> 1, den |-> 2]
           /\ n = 2 => a.score_multiplier = [num |-> 1, den |-> 4]

\* a record retried twice, scored on its third attempt
C1_Witness ==
    \E i \in AnswerIds :
        /\ accepted_retries[i] = 2
        /\ answers[i].status = "answered"
        /\ answers[i].score # None
        /\ answers[i].score_multiplier = [num |-> 1, den |-> 4]

\* C2: submit_answer or skip_question on an answered or skipped record, and
\* retry_answer on a pending or skipped record, return an error and leave
\* the record and its block unchanged.
C2_IllegalOperationRejectedUnchanged ==
    [][ LET c == last_call'
        IN c.answer_id \in AnswerIds =>
             LET st == answers[c.answer_id].status
                 illegal == \/ c.op \in {"submit", "skip"} /\ st \in {"answered", "skipped"}
                            \/ c.op = "retry" /\ st \in {"pending", "skipped"}
             IN illegal => /\ c.error # None
                           /\ answers' = answers
                           /\ block' = block ]_vars

\* a retry of a skipped record has been rejected, and a submit of an
\* answered one could be next
C2_Witness ==
    /\ Rejected("retry")
    /\ last_call.answer_id \in AnswerIds
    /\ answers[last_call.answer_id].status = "skipped"
    /\ \E j \in AnswerIds : answers[j].status = "answered"

\* C3: the block's total_answered equals the number of its records in
\* status answered and is never negative; every accepted retry lowers it
\* by one.
C3_TotalAnsweredCountsAnsweredRecords ==
    /\ [](/\ block.total_answered = Cardinality({i \in AnswerIds : answers[i].status = "answered"})
          /\ block.total_answered >= 0)
    /\ [][ (last_call'.op = "retry" /\ last_call'.error = None)
              => block'.total_answered = block.total_answered - 1 ]_vars

\* a retry has been accepted while another record stays answered
C3_Witness ==
    /\ Accepted("retry")
    /\ block.total_answered = 1
    /\ \E i \in AnswerIds : accepted_retries[i] >= 1 /\ answers[i].status = "pending"

\* C4: skip_question is accepted only on a pending record, sets status
\* skipped, score 0 and is_correct false, and no later call changes the
\* status, score or is_correct of a skipped record.
C4_SkipOnlyFromPendingAndIrreversible ==
    [][ /\ \A i \in AnswerIds :
              answers[i].status = "skipped" =>
                  /\ answers'[i].status = "skipped"
                  /\ answers'[i].score = answers[i].score
                  /\ answers'[i].is_correct = answers[i].is_correct
        /\ (last_call'.op = "skip" /\ last_call'.error = None) =>
              /\ answers[last_call'.answer_id].status = "pending"
              /\ answers'[last_call'.answer_id].status = "skipped"
              /\ answers'[last_call'.answer_id].score = Some([num |-> 0, den |-> 1])
              /\ answers'[last_call'.answer_id].is_correct = Some(FALSE) ]_vars

\* a skipped record on which a retry and a submit have been tried
C4_Witness ==
    /\ last_call.op \in {"retry", "submit"}
    /\ last_call.answer_id \in AnswerIds
    /\ answers[last_call.answer_id].status = "skipped"
    /\ answers[last_call.answer_id].score = Some([num |-> 0, den |-> 1])

\* C5: score_multiplier of a record never increases, and a step that is
\* not a retry_answer call (submit or skip, accepted or rejected) leaves
\* attempt_number and score_multiplier of every record unchanged.
C5_MultiplierNonIncreasingOnlyRetryChangesIt ==
    [][ \A i \in AnswerIds :
            /\ answers'[i].score_multiplier.num * answers[i].score_multiplier.den
                  <= answers[i].score_multiplier.num * answers'[i].score_multiplier.den
            /\ last_call'.op # "retry" =>
                  /\ answers'[i].attempt_number = answers[i].attempt_number
                  /\ answers'[i].score_multiplier = answers[i].score_multiplier ]_vars

\* a submit has been accepted on a record whose multiplier was lowered
C5_Witness ==
    /\ Accepted("submit")
    /\ answers[last_call.answer_id].score_multiplier = [num |-> 1, den |-> 2]
    /\ \E j \in AnswerIds : answers[j].status = "skipped"

Rank(l) == IF l = "easy" THEN 0 ELSE IF l = "middle" THEN 1 ELSE 2

\* C7: update_level_after_task returns level_up(level) on a strong pass
\* whatever the advance flag, level_down(level) on a fail that is not a
\* strong pass when advance is true, and the level unchanged otherwise.
C7_UpdateLevelRule ==
    last_update # None =>
        LET u == last_update[1]
            strong == is_strong_pass(task_result)
            fail == is_fail(task_result)
        IN /\ level = u.returned
           /\ strong => u.returned = level_up(u.current_level)
           /\ (~strong /\ fail /\ u.user_clicked_next) => u.returned = level_down(u.current_level)
           /\ (~strong /\ ~(fail /\ u.user_clicked_next)) => u.returned = u.current_level
           /\ (fail /\ ~u.user_clicked_next) => Rank(u.returned) >= Rank(u.current_level)

\* a failed task without the advance flag left the level at hard
C7_Witness ==
    /\ last_update # None
    /\ is_fail(task_result)
    /\ ~last_update[1].user_clicked_next
    /\ last_update[1].current_level = "hard"
    /\ level = "hard"

\* C8: the level stays in {easy, middle, hard}, each call moves it by at
\* most one step, level_up maps easy->middle, middle->hard, hard->hard and
\* level_down maps hard->middle, middle->easy, easy->easy.
C8_LevelStaysOnScale ==
    /\ level \in Levels
    /\ last_update # None =>
          LET d == Rank(last_update[1].returned) - Rank(last_update[1].current_level)
          IN /\ d \in {-1, 0, 1}
             /\ last_update[1].returned \in Levels
             /\ is_strong_pass(task_result) =>
                   last_update[1].returned =
                       (CASE last_update[1].current_level = "easy" -> "middle"
                          [] last_update[1].current_level = "middle" -> "hard"
                          [] last_update[1].current_level = "hard" -> "hard")
    /\ level_up("easy") = "middle" /\ level_up("middle") = "hard" /\ level_up("hard") = "hard"
    /\ level_down("hard") = "middle" /\ level_down("middle") = "easy" /\ level_down("easy") = "easy"

\* a strong pass at the ceiling: hard stays hard
C8_Witness ==
    /\ last_update # None
    /\ is_strong_pass(task_result)
    /\ last_update[1].current_level = "hard"
    /\ level = "hard"

\* C9: for difficulty easy or middle, is_strong_pass holds exactly when the
\* visible rate is 1, the total rate is >= 0.90, hints_hard = 0 and
\* hints_medium <= 1; for hard exactly when the visible rate is 1 and the
\* total rate is >= 0.75, whatever the hints.
C9_StrongPassRule ==
    last_update # None =>
        LET r == task_result
            vt == IF r.visible_total >= 1 THEN r.visible_total ELSE 1
            tt == IF r.visible_total + r.hidden_total >= 1
                  THEN r.visible_total + r.hidden_total ELSE 1
            tp == r.visible_passed + r.hidden_passed
        IN /\ r.difficulty \in {"easy", "middle"} =>
                (is_strong_pass(r) <=> /\ r.visible_passed = vt
                                       /\ 10 * tp >= 9 * tt
                                       /\ r.hints_hard = 0
                                       /\ r.hints_medium <= 1)
           /\ r.difficulty = "hard" =>
                (is_strong_pass(r) <=> /\ r.visible_passed = vt
                                       /\ 4 * tp >= 3 * tt)

\* easy, 3/3 visible, 9/10 hidden, one medium hint: a strong pass that moved
\* the level from easy to middle
C9_Witness ==
    /\ last_update # None
    /\ task_result = [ difficulty |-> "easy", visible_passed |-> 3, visible_total |-> 3,
                       hidden_passed |-> 9, hidden_total |-> 10,
                       hints_medium |-> 1, hints_hard |-> 0 ]
    /\ is_strong_pass(task_result)
    /\ last_update[1].current_level = "easy"
    /\ level = "middle"

\* C10: no TaskResult is both a strong pass and a fail, where fail means
\* visible rate < 0.60 or total rate < 0.50 (zero totals and passed counts
\* above the totals included).
C10_StrongPassAndFailExclusive ==
    last_update # None =>
        LET r == task_result
            vt == IF r.visible_total >= 1 THEN r.visible_total ELSE 1
            tt == IF r.visible_total + r.hidden_total >= 1
                  THEN r.visible_total + r.hidden_total ELSE 1
            tp == r.visible_passed + r.hidden_passed
        IN /\ ~(is_strong_pass(r) /\ is_fail(r))
           /\ is_fail(r) <=> (10 * r.visible_passed < 6 * vt \/ 2 * tp < tt)

\* a strong pass with zero totals and a passed count above the total
C10_Witness ==
    /\ last_update # None
    /\ task_result.visible_total = 0
    /\ task_result.hidden_total = 0
    /\ task_result.visible_passed = 1
    /\ is_strong_pass(task_result)
    /\ ~is_fail(task_result)

\* ------------------------------------------------ claims: task scoring

\* the first task of the list being scored, and the integer parts of its score
ScoredTask == scoring.results[1]
PassedOf(r) == r.visible_passed + r.hidden_passed
TotalOf(r) == IF r.visible_total + r.hidden_total >= 1 THEN r.visible_total + r.hidden_total ELSE 1
WeightOf(r) == IF r.difficulty = "easy" THEN 1 ELSE IF r.difficulty = "middle" THEN 2 ELSE 3
PenaltyPercentOf(r) ==
    LET p == 10 * r.hints_soft + 20 * r.hints_medium + 35 * r.hints_hard
    IN IF p < 70 THEN p ELSE 70
WithinTotals(r) == r.visible_passed <= r.visible_total /\ r.hidden_passed <= r.hidden_total
TaskScoreCalled == scoring # None /\ scoring.task_score # None
CodingScoreCalled == scoring # None /\ scoring.coding_score # None

\* C11: for every TaskResult with visible_total = 0 and hidden_total = 0 and
\* difficulty easy, middle or hard, whatever its passed and hint counts,
\* calculate_task_score returns 0.0 and raises nothing.
C11_ZeroTotalsScoreZero ==
    (/\ TaskScoreCalled
     /\ ScoredTask.difficulty \in Levels
     /\ ScoredTask.visible_total = 0
     /\ ScoredTask.hidden_total = 0)
        => scoring.task_score[1] = [raised |-> "", value |-> Some([num |-> 0, den |-> 1])]

\* C12: for a TaskResult with passed <= total and difficulty easy, middle or
\* hard, calculate_task_score = weight * total_rate * (1 - min(0.10 soft +
\* 0.20 medium + 0.35 hard, 0.70)); it lies in [0, weight], keeps at least
\* 30% of weight * total_rate, and one hint of each kind is a penalty 0.65.
C12_TaskScoreFormula ==
    (/\ TaskScoreCalled
     /\ ScoredTask.difficulty \in Levels
     /\ WithinTotals(ScoredTask))
        => LET r == ScoredTask
               out == scoring.task_score[1]
               v == out.value[1]
           IN /\ out.raised = ""
              /\ v.num * TotalOf(r) * 100
                    = WeightOf(r) * PassedOf(r) * (100 - PenaltyPercentOf(r)) * v.den
              /\ v.num >= 0
              /\ v.num <= WeightOf(r) * v.den
              /\ 10 * v.num * TotalOf(r) >= 3 * WeightOf(r) * PassedOf(r) * v.den
              /\ (r.hints_soft = 1 /\ r.hints_medium = 1 /\ r.hints_hard = 1) =>
                    /\ HintPenalty(r) = [num |-> 13, den |-> 20]
                    /\ 20 * v.num * TotalOf(r) = 7 * WeightOf(r) * PassedOf(r) * v.den

\* a fully passed task scored under the capped penalty: 30% of the weight
C12_Witness ==
    /\ TaskScoreCalled
    /\ ScoredTask.difficulty = "hard"
    /\ ScoredTask.visible_total > 0
    /\ ScoredTask.hidden_total > 0
    /\ ScoredTask.visible_passed = ScoredTask.visible_total
    /\ ScoredTask.hidden_passed = ScoredTask.hidden_total
    /\ 10 * ScoredTask.hints_soft + 20 * ScoredTask.hints_medium + 35 * ScoredTask.hints_hard > 70
    /\ scoring.task_score[1].value = Some([num |-> 9, den |-> 10])

\* the score the claim gives to one task, as a rational
ClaimedTaskScore(r) ==
    Rat(WeightOf(r) * PassedOf(r) * (100 - PenaltyPercentOf(r)), TotalOf(r) * 100)

RECURSIVE ClaimedScoreSum(_, _)
ClaimedScoreSum(results, n) ==
    IF n = 0 THEN RatOfInt(0)
    ELSE RatAdd(ClaimedScoreSum(results, n - 1), ClaimedTaskScore(results[n]))

RECURSIVE ClaimedWeightSum(_, _)
ClaimedWeightSum(results, n) ==
    IF n = 0 THEN 0 ELSE ClaimedWeightSum(results, n - 1) + WeightOf(results[n])

\* C13: calculate_coding_score is 0.0 for the empty list and otherwise
\* 100 * sum(task_score) / sum(weight) clamped to [0, 100] (tasks of
\* difficulty easy, middle or hard); a single hard task with every test
\* passed and no hints has task score 3.0 and coding score 100.0.
C13_CodingScoreFormula ==
    (/\ CodingScoreCalled
     /\ \A i \in 1..Len(scoring.results) : scoring.results[i].difficulty \in Levels)
        => LET rs == scoring.results
               out == scoring.coding_score[1]
               v == out.value[1]
               raw == Rat(100 * ClaimedScoreSum(rs, Len(rs)).num,
                          ClaimedScoreSum(rs, Len(rs)).den * ClaimedWeightSum(rs, Len(rs)))
           IN /\ out.raised = ""
              /\ v.num >= 0 /\ v.num <= 100 * v.den
              /\ rs = <<>> => v = [num |-> 0, den |-> 1]
              /\ rs # <<>> => v = (IF raw.num > 100 * raw.den THEN [num |-> 100, den |-> 1] ELSE raw)
              /\ (/\ Len(rs) = 1
                  /\ rs[1].difficulty = "hard"
                  /\ rs[1].visible_total > 0 /\ rs[1].visible_passed = rs[1].visible_total
                  /\ rs[1].hidden_passed = rs[1].hidden_total
                  /\ rs[1].hints_soft = 0 /\ rs[1].hints_medium = 0 /\ rs[1].hints_hard = 0)
                    => /\ v = [num |-> 100, den |-> 1]
                       /\ calculate_task_score(rs[1]) = [raised |-> "", value |-> Some([num |-> 3, den |-> 1])]

\* two tasks, one of them with more tests passed than it has: the raw score
\* is above 100 and 100 is returned
C13_Witness ==
    /\ CodingScoreCalled
    /\ Len(scoring.results) = 2
    /\ \A i \in 1..2 : scoring.results[i].difficulty \in Levels
    /\ scoring.results[1].visible_passed > scoring.results[1].visible_total
    /\ scoring.results[1].hidden_total = 0 /\ scoring.results[1].hidden_passed > 0
    /\ scoring.results[2].visible_passed > 0
    /\ scoring.coding_score[1] = [raised |-> "", value |-> Some([num |-> 100, den |-> 1])]

\* the same TaskResult tagged middle
AsMiddle(r) == [r EXCEPT !.difficulty = "middle"]

\* C14: a TaskResult of difficulty medium is treated as middle: is_strong_pass,
\* is_fail, calculate_task_score and calculate_coding_score return what they
\* return for the same TaskResult with difficulty middle, and raise nothing.
C14_MediumTreatedAsMiddle ==
    (/\ TaskScoreCalled
     /\ CodingScoreCalled
     /\ ScoredTask.difficulty = "medium")
        => /\ scoring.task_score[1].raised = ""
           /\ scoring.task_score[1] = calculate_task_score(AsMiddle(ScoredTask))
           /\ scoring.coding_score[1].raised = ""
           /\ scoring.coding_score[1] =
                 calculate_coding_score([scoring.results EXCEPT ![1] = AsMiddle(ScoredTask)])
           /\ is_strong_pass(ScoredTask) = is_strong_pass(AsMiddle(ScoredTask))
           /\ is_fail(ScoredTask) = is_fail(AsMiddle(ScoredTask))

\* ------------------------------------------------- claims: trust score

\* a trust-score request that has been answered
TrustCalculated == trust # None /\ trust.result # None

\* sum over i = from .. to of min(8 + 2i, 15)
RECURSIVE SumOfSteps(_, _)
SumOfSteps(from, to) ==
    IF from > to THEN 0
    ELSE (IF 8 + 2 * from <= 15 THEN 8 + 2 * from ELSE 15) + SumOfSteps(from + 1, to)

\* the focus-loss penalty with the first penalised loss at 8
FocusLossFromEight(n) ==
    IF n <= 1 THEN 0
    ELSE IF SumOfSteps(0, n - 2) <= 50 THEN SumOfSteps(0, n - 2) ELSE 50

\* the focus-loss penalty with the first penalised loss at 10
FocusLossFromTen(n) ==
    IF n <= 1 THEN 0
    ELSE IF SumOfSteps(1, n - 1) <= 50 THEN SumOfSteps(1, n - 1) ELSE 50

\* the penalties of the signals other than AI-likeness and focus loss
PastePenaltyOf(s) ==
    10 * (IF s.big_pastes_count <= 3 THEN s.big_pastes_count ELSE 3)
    + (IF s.pastes_after_long_blur > 0 THEN 15 ELSE 0)
FastAndDevtoolsPenaltyOf(s) ==
    15 * (IF s.suspiciously_fast_solutions <= 2 THEN s.suspiciously_fast_solutions ELSE 2)
    + (IF s.devtools_opened THEN 10 ELSE 0)

AiPenaltyOf(s) ==
    IF s.ai_likeness_score = None THEN 0
    ELSE IF ~RatLt(s.ai_likeness_score[1], RatOfInt(80)) THEN 25
    ELSE IF ~RatLt(s.ai_likeness_score[1], RatOfInt(60)) THEN 10
    ELSE 0

FlooredAtZero(x) == IF x < 0 THEN 0 ELSE x

StatusOf(score) ==
    CASE score >= 80 -> "ok"
      [] score >= 50 /\ score <= 79 -> "suspicious"
      [] score < 50 -> "high_risk"

\* C15: calc_trust_score returns an integer in [0, 100] that is 100 minus the
\* sum of the penalties (10 per big paste up to 3, 15 for any paste after a
\* long blur, 15 per fast solution up to 2, 10 for devtools, 25 for AI
\* likeness >= 80 or else 10 for >= 60, the focus-loss penalty), floored at
\* 0; get_trust_status gives ok from 80, suspicious from 50 to 79 and
\* high_risk below 50; 2 big pastes with devtools give 70 and suspicious.
C15_TrustScoreFormula ==
    TrustCalculated =>
        LET s == trust.signals
            r == trust.result[1]
        IN  /\ r.trust_score \in 0..100
            /\ r.trust_score =
                 FlooredAtZero(100 - PastePenaltyOf(s) - FastAndDevtoolsPenaltyOf(s)
                                   - AiPenaltyOf(s) - FocusLossFromEight(s.focus_lost_count))
            /\ r.trust_status = StatusOf(r.trust_score)
            /\ ( /\ s.big_pastes_count = 2 /\ s.devtools_opened
                 /\ s.pastes_after_long_blur = 0 /\ s.suspiciously_fast_solutions = 0
                 /\ s.focus_lost_count = 0 /\ s.ai_likeness_score = None )
               => r.trust_score = 70 /\ r.trust_status = "suspicious"

\* two big pastes with devtools opened and nothing else: 70, suspicious
C15_Witness ==
    /\ TrustCalculated
    /\ trust.signals.big_pastes_count = 2 /\ trust.signals.devtools_opened
    /\ trust.signals.pastes_after_long_blur = 0
    /\ trust.signals.suspiciously_fast_solutions = 0
    /\ trust.signals.focus_lost_count = 0
    /\ trust.signals.ai_likeness_score = None
    /\ trust.result[1].trust_score = 70
    /\ trust.result[1].trust_status = "suspicious"

\* the score the request would have had without any focus loss
ScoreWithoutFocusLoss == calc_trust_score([trust.signals EXCEPT !.focus_lost_count = 0])

\* the signals other than focus loss carry no penalty
OnlyFocusLost ==
    /\ trust.signals.big_pastes_count = 0 /\ trust.signals.pastes_after_long_blur = 0
    /\ trust.signals.suspiciously_fast_solutions = 0 /\ ~trust.signals.devtools_opened
    /\ trust.signals.ai_likeness_score = None

\* C16 (as claimed): the focus-loss part of the penalty is 0 for
\* focus_lost_count <= 1 and for n >= 2 it is min(50, sum over k = 1..n-1 of
\* min(8 + 2k, 15)): 10 for the first loss beyond the free one, then 12, 14,
\* 15 each, never above 50 in total.
C16_FocusLossPenaltyFromTen ==
    TrustCalculated =>
        /\ trust.result[1].trust_score =
             FlooredAtZero(ScoreWithoutFocusLoss - FocusLossFromTen(trust.signals.focus_lost_count))
        /\ OnlyFocusLost =>
             100 - trust.result[1].trust_score = FocusLossFromTen(trust.signals.focus_lost_count)

\* C16 (amended): the focus-loss part of the penalty is 0 for
\* focus_lost_count <= 1 and for n >= 2 it is min(50, sum over k = 0..n-2 of
\* min(8 + 2k, 15)): 8 for the first loss beyond the free one, then 10, 12,
\* 14, 15 each, never above 50 in total.
C16_FocusLossPenaltyFromEight ==
    TrustCalculated =>
        /\ trust.result[1].trust_score =
             FlooredAtZero(ScoreWithoutFocusLoss - FocusLossFromEight(trust.signals.focus_lost_count))
        /\ OnlyFocusLost =>
             /\ 100 - trust.result[1].trust_score = FocusLossFromEight(trust.signals.focus_lost_count)
             /\ 100 - trust.result[1].trust_score <= 50
             /\ trust.signals.focus_lost_count = 2 => trust.result[1].trust_score = 92
             /\ trust.signals.focus_lost_count = 3 => trust.result[1].trust_score = 82

\* six focus losses and nothing else: 8 + 10 + 12 + 14 + 15 = 59, capped at 50
C16_Witness ==
    /\ TrustCalculated /\ OnlyFocusLost
    /\ trust.signals.focus_lost_count = 6
    /\ trust.result[1].trust_score = 50

\* AI-likeness values to compare a score with
AiProbes == { RatOfInt(a) : a \in AiScores \cup {0, 79, 100} }

\* the signal records that differ from s in one suspicious signal only,
\* which is larger
LargerInOneSignal(s) ==
    { [s EXCEPT !.big_pastes_count = @ + d] : d \in 1..2 }
    \cup { [s EXCEPT !.focus_lost_count = @ + d] : d \in 1..2 }
    \cup (IF s.devtools_opened THEN {} ELSE { [s EXCEPT !.devtools_opened = TRUE] })
    \cup (IF s.ai_likeness_score = None THEN {}
          ELSE { [s EXCEPT !.ai_likeness_score = Some(a)] :
                   a \in { b \in AiProbes : RatLt(s.ai_likeness_score[1], b) } })

\* C17: calc_trust_score never grows when one of big_pastes_count,
\* focus_lost_count, devtools_opened (false to true) or ai_likeness_score
\* grows and the other signals stay as they are.
C17_TrustScoreMonotone ==
    TrustCalculated =>
        \A larger \in LargerInOneSignal(trust.signals) :
            calc_trust_score(larger) <= trust.result[1].trust_score

\* a score with an AI-likeness of 70 that a larger AI-likeness lowers
C17_Witness ==
    /\ TrustCalculated
    /\ trust.signals.ai_likeness_score = Some(RatOfInt(70))
    /\ trust.result[1].trust_score > 0
    /\ \E larger \in LargerInOneSignal(trust.signals) :
          /\ larger.ai_likeness_score # trust.signals.ai_likeness_score
          /\ calc_trust_score(larger) < trust.result[1].trust_score

\* the tasks whose check returned a score
ScoredTasks == { i \in DOMAIN trust.outcomes : trust.outcomes[i].kind = "score" }

RECURSIVE SumOfScoresIn(_)
SumOfScoresIn(tasks) ==
    IF tasks = {} THEN 0
    ELSE LET i == CHOOSE j \in tasks : TRUE
         IN  trust.outcomes[i].score + SumOfScoresIn(tasks \ {i})

\* C19: when the AI-likeness check fails for every analysed submission, or
\* nothing is analysed, ai_likeness_score is None, the trust score carries
\* no AI penalty and the reasons no AI-likeness reason; when it fails for
\* some tasks only, the scores of the other tasks are averaged.
C19_AiFailureContributesNothing ==
    TrustCalculated =>
        LET s == trust.signals
            r == trust.result[1]
        IN  /\ ScoredTasks = {} =>
                 /\ s.ai_likeness_score = None
                 /\ r.trust_score =
                      FlooredAtZero(100 - PastePenaltyOf(s) - FastAndDevtoolsPenaltyOf(s)
                                        - FocusLossFromEight(s.focus_lost_count))
                 /\ \A i \in DOMAIN r.trust_reasons :
                       r.trust_reasons[i].kind \notin {"ai_strong", "ai_partial"}
            /\ ScoredTasks # {} =>
                 /\ s.ai_likeness_score # None
                 /\ s.ai_likeness_score[1].num * Cardinality(ScoredTasks)
                      = SumOfScoresIn(ScoredTasks) * s.ai_likeness_score[1].den

\* every check raised, and the score is that of the two big pastes alone
C19_Witness ==
    /\ TrustCalculated
    /\ Len(trust.outcomes) = 2
    /\ \A i \in DOMAIN trust.outcomes : trust.outcomes[i] = CheckRaised
    /\ trust.signals.ai_likeness_score = None
    /\ trust.signals.big_pastes_count = 2
    /\ trust.result[1].trust_score = 80
    /\ trust.result[1].trust_reasons = <<Reason("big_pastes", 2)>>

\* ------------------------------------------ claims: replay of the events

\* build_signals has answered for a history that holds events
ReplayDone == replay # None /\ replay.result # None /\ replay.events # <<>>

Replayed == replay.result[1].queried

\* the event takes the tab away: blur, or visibility_change(visible=false)
HidesTab(e) ==
    \/ e.event_type = "blur"
    \/ e.event_type = "visibility_change" /\ e.meta.visible = Some(FALSE)

\* the event brings the tab back: focus, or visibility_change(visible=true)
ShowsTab(e) ==
    \/ e.event_type = "focus"
    \/ e.event_type = "visibility_change" /\ e.meta.visible = Some(TRUE)

\* the i-th replayed event is a paste, the most recent blur before it has no
\* focus after it, and the paste is at least 60000 ms later than that blur
PasteAfterLongBlur(i) ==
    /\ Replayed[i].event_type = "paste"
    /\ \E j \in 1..(i - 1) :
          /\ HidesTab(Replayed[j])
          /\ \A k \in (j + 1)..(i - 1) : ~HidesTab(Replayed[k]) /\ ~ShowsTab(Replayed[k])
          /\ Replayed[i].created_at - Replayed[j].created_at >= 60000

GradingDone == grading # None /\ grading.calc # None /\ grading.calc[1].raised = ""

Fields == grading.calc[1].value[1]

\* 100 * (0.6 * perf_index + 0.25 * exp_index + 0.15 * self_index)
WeightedHundredths == 60 * Fields.perf_index + 25 * Fields.exp_index + 15 * Fields.self_index

\* n is round(hundredths / 100): the nearest integer, the even one of two
\* that are equally near
IsRounded(n, hundredths) ==
    \/ 100 * n - hundredths < 50 /\ hundredths - 100 * n < 50
    \/ 100 * n - hundredths = 50 /\ n % 2 = 0
    \/ hundredths - 100 * n = 50 /\ n % 2 = 0

\* the index of the grade band an overall score falls in
BandOf(score) ==
    CASE score.num < 30 * score.den -> 0
      [] score.num >= 30 * score.den /\ score.num < 50 * score.den -> 1
      [] score.num >= 50 * score.den /\ score.num < 75 * score.den -> 2
      [] score.num >= 75 * score.den -> 3

\* C20: FinalGradeCalculation yields overall_score = 0.7 * coding_score +
\* 0.3 * theory_score, perf_index = score_to_grade_index(overall_score),
\* final_grade_index = round(0.6 * perf_index + 0.25 * exp_index + 0.15 *
\* self_index) clamped to the scale, so final_grade_index is within [0, 3],
\* and final_grade is the label at that index.
C20_FinalGradeFields ==
    (grading # None /\ grading.calc # None) =>
        /\ grading.calc[1].raised = ""
        /\ LET f == Fields
               unclamped == CHOOSE n \in -1..4 : IsRounded(n, WeightedHundredths)
           IN  /\ 10 * f.overall_score.num * f.coding_score.den * f.theory_score.den
                    = f.overall_score.den * (7 * f.coding_score.num * f.theory_score.den
                                             + 3 * f.theory_score.num * f.coding_score.den)
               /\ f.perf_index = BandOf(f.overall_score)
               /\ \E n \in -1..4 : IsRounded(n, WeightedHundredths)
               /\ f.final_grade_index =
                    (IF unclamped < 0 THEN 0 ELSE IF unclamped > 3 THEN 3 ELSE unclamped)
               /\ f.final_grade_index \in 0..3
               /\ f.final_grade = <<Chars_intern, Chars_junior, Chars_middle, Chars_senior>>
                                     [f.final_grade_index + 1]

\* a half-way case: performance 1, experience 3, self-claimed 1 weigh 1.5,
\* which rounds to the even index 2, middle
C20_Witness ==
    /\ GradingDone
    /\ Fields.perf_index = 1 /\ Fields.exp_index = 3 /\ Fields.self_index = 1
    /\ Fields.final_grade_index = 2
    /\ Fields.final_grade = Chars_middle

\* ------------------------------------------------- claims: start grade

StartGradeDone == start # None /\ start.result # None

StartResult == start.result[1]

\* round(a/10) clamped to the scale 0..3
ClampedRound(tenths) == Max(0, Min(3, RoundHalfEven(Rat(tenths, 10))))

\* C21: with no resume grade the start index is
\* round(0.5*exp_index + 0.5*self_index) clamped to the scale; with a resume
\* grade supplied, 'intern' included, the index of that grade is used in
\* round(0.5*exp_index + 0.3*self_index + 0.2*resume_index) and is the
\* resume_index of the result
C21_ResumeIndexDefault ==
    StartGradeDone =>
        LET r == StartResult
            e == experience_to_grade_index(start.years_of_experience)
            s == grade_to_index(start.self_claimed_grade)
        IN  IF start.resume_grade = None
            THEN r.start_grade_index = ClampedRound(5 * e + 5 * s)
            ELSE LET g == grade_to_index(start.resume_grade[1])
                 IN  /\ r.start_grade_index = ClampedRound(5 * e + 3 * s + 2 * g)
                     /\ r.resume_index = g

\* the part of C21 that the code keeps: the start index itself
C21_StartIndexFormula ==
    StartGradeDone =>
        LET r == StartResult
            e == experience_to_grade_index(start.years_of_experience)
            s == grade_to_index(start.self_claimed_grade)
            g == IF start.resume_grade = None THEN s
                 ELSE grade_to_index(start.resume_grade[1])
        IN  r.start_grade_index = ClampedRound(5 * e + 3 * s + 2 * g)

\* a resume grade 'intern' with a higher self-claimed grade
C21_InternResume ==
    /\ StartGradeDone
    /\ start.resume_grade = Some(Chars_intern)
    /\ grade_to_index(start.self_claimed_grade) = 3

\* ------------------------------------------- claims: next-task progression

\* a call that computed a difficulty from the average of completed tasks
ProgressionCalled ==
    /\ progression # None
    /\ progression.call # None
    /\ progression.call[1].next_difficulty # None
    /\ Completed(progression.previous_tasks) # <<>>

LastIdx == IndexIn(difficulty_order,
                   progression.previous_tasks[Len(progression.previous_tasks)].difficulty)[1]
ChosenIdx == IndexIn(difficulty_order, progression.call[1].next_difficulty[1])[1]
Average == AvgScore(Completed(progression.previous_tasks))

\* C22: the difficulty rises one step only when the average score of the
\* previous tasks is >= 70 and ai_style_score < 0.5, falls one step when the
\* average is <= 30, and is kept otherwise; an average strictly between 30 and
\* 70 never changes it
C22_ScoreAndAiGatedProgression ==
    ProgressionCalled =>
        /\ ChosenIdx > LastIdx =>
               /\ ChosenIdx = LastIdx + 1
               /\ RatGeq(Average, RaiseThreshold)
               /\ RatLt(progression.ai_style_score, Rat(1, 2))
        /\ RatLeq(Average, RatOfInt(30)) => ChosenIdx = Max(LastIdx - 1, 0)
        /\ (RatLt(RatOfInt(30), Average) /\ RatLt(Average, RaiseThreshold)) =>
               ChosenIdx = LastIdx

\* what the endpoints compute: up at an average >= 70, down below 40, on the
\* three difficulties, whatever the ai_style_score
C22_ScoreGatedProgression ==
    ProgressionCalled =>
        ChosenIdx = IF RatGeq(Average, RaiseThreshold) THEN Min(LastIdx + 1, 2)
                    ELSE IF RatLt(Average, LowerThreshold) THEN Max(LastIdx - 1, 0)
                    ELSE LastIdx

\* an average of 35 on a medium task
C22_AverageBetweenThirtyAndForty ==
    /\ ProgressionCalled
    /\ Average = RatOfInt(35)
    /\ LastIdx = 1

\* ------------------------------------------------ claims: hiring decision

DecisionMade == decision # None /\ decision.result # None

\* the auto-reject gate as the module docstring and the claim state it
AutoRejectGate ==
    LET cheat == decision.cheat
    IN  \/ RatLt(Rat(7, 10), cheat.ai_style_score)
        \/ cheat.copy_paste_count > 3
        \/ (RatLt(Rat(1, 2), cheat.ai_style_score)
            /\ RatLt(Rat(4, 5), cheat.code_similarity_score))

\* the moderate signals that are raised
ModerateSignals ==
    LET cheat == decision.cheat
    IN  {s \in {"ai", "paste", "devtools", "focus"} :
            \/ s = "ai" /\ RatLt(Rat(2, 5), cheat.ai_style_score)
            \/ s = "paste" /\ cheat.copy_paste_count > 2
            \/ s = "devtools" /\ cheat.devtools_opened
            \/ s = "focus" /\ cheat.focus_lost_count > 5}

GradesUpToMiddle == {"rejected", "intern", "junior", "junior+", "middle"}

\* C23: a candidate whose cheat signals trigger the auto-reject gate is
\* rejected whatever the score, and one with at least two moderate signals is
\* never hired and gets a grade of at most middle, for every score and every
\* pair of thresholds
C23_CheatGatesNeverHire ==
    DecisionMade =>
        LET r == decision.result[1]
        IN  /\ AutoRejectGate => r.decision = "REJECT"
            /\ Cardinality(ModerateSignals) >= 2 =>
                   /\ r.decision \in {"CONSIDER", "REJECT"}
                   /\ r.grade \in GradesUpToMiddle

\* a capped candidate who is not auto-rejected and whose score reaches the
\* hire threshold and the middle+ grade
C23_Witness ==
    /\ DecisionMade
    /\ ~AutoRejectGate
    /\ Cardinality(ModerateSignals) >= 2
    /\ decision.total_score >= decision.thresholds.hire
    /\ decision.total_score = 75
    /\ decision.result[1].decision = "CONSIDER"

\* --------------------------------------------------- claims: coding task

\* the last call was a stored submission in which every visible test passed
AllVisiblePassedLast ==
    /\ coding_task # None
    /\ coding_task.last # None
    /\ coding_task.last[1].op = "submit"
    /\ coding_task.last[1].error = None
    /\ coding_task.last[1].all_visible_passed

\* C24: after any hint requests and submissions, a submission in which all
\* visible tests pass (at least one visible test) leaves the task completed
C24_AllVisiblePassedCompletes ==
    AllVisiblePassedLast => coding_task.status = "completed"

\* an earlier submission scored more than the one that passes every visible
\* test
C24_PassedButNotBest ==
    /\ AllVisiblePassedLast
    /\ coding_task.status = "active"
    /\ coding_task.hints = 0

\* ------------------------------------- claims: block progress invariants

PendingIds == {i \in AnswerIds : answers[i].status = "pending"}
ConsumedIds == {i \in AnswerIds : answers[i].status \in {"answered", "skipped"}}

\* C26: a completed block has no pending question-answer record, after any
\* further submit, skip or retry
C26_CompletedBlockHasNoPending ==
    block.status = "completed" => PendingIds = {}

\* C27: current_question_index never exceeds total_questions and equals the
\* number of records answered or skipped, total_answered + total_skipped
C27_IndexCountsConsumed ==
    /\ block.current_question_index <= block.total_questions
    /\ block.current_question_index = Cardinality(ConsumedIds)
    /\ block.current_question_index = block.total_answered + block.total_skipped

\* C28: while the block is in progress the question get_current_question
\* returns is pending, and no pending question lies behind the index
C28_CurrentQuestionIsPending ==
    block.status = "in_progress" =>
        LET current == get_current_question(block, answers)
        IN  /\ current # None
            /\ current[1].status = "pending"
            /\ \A i \in PendingIds : answers[i].question_order > block.current_question_index

\* ------------------------------------------- claims: POST /answer frame

\* C29: when POST /answer is rejected because the record is not pending, the
\* stored record is unchanged: evaluation_details, feedback, score,
\* is_correct and status are those it had before the request
C29_RejectedSubmitLeavesRecord ==
    [][\A id \in AnswerIds, evaluation \in LlmOutcomes :
          (AnswerQuestion(id, evaluation) /\ ~IsPending(answers[id]))
              => /\ answers'[id] = answers[id]
                 /\ evaluations'[id] = evaluations[id]]_vars

\* the part the service keeps: score, is_correct and status of the row
C29_RejectedSubmitLeavesRow ==
    [][\A id \in AnswerIds, evaluation \in LlmOutcomes :
          (AnswerQuestion(id, evaluation) /\ ~IsPending(answers[id]))
              => answers'[id] = answers[id]]_vars

\* ------------------------------------- claims: concurrent requests

\* two requests of the same kind that loaded the same state of the record
SameStateRead(r1, r2) ==
    /\ r1 # r2
    /\ requests.slots[r1].op = requests.slots[r2].op
    /\ requests.slots[r1].pc = "done"
    /\ requests.slots[r2].pc = "done"
    /\ requests.slots[r1].version_read = requests.slots[r2].version_read

\* C25: of two submits that interleave on a pending record, or two retries on
\* an answered record, exactly one is accepted and the other is rejected
C25_ExactlyOneAccepted ==
    requests # None =>
        \A r1, r2 \in RequestIds :
            SameStateRead(r1, r2) =>
                ~(requests.slots[r1].result = "accepted"
                  /\ requests.slots[r2].result = "accepted")

\* --------------------------------- claims: final grade of an interview

FinalGraded == final # None /\ final.calc # None

\* every task was last submitted with all visible and hidden tests passing,
\* and no hint was taken
PerfectInterview ==
    /\ final.tasks # <<>>
    /\ \A i \in 1..Len(final.tasks) :
           LET t == final.tasks[i]
           IN  /\ t.hints = <<>>
               /\ t.submissions # <<>>
               /\ LET s == t.submissions[Len(t.submissions)]
                  IN  /\ s.total_visible > 0
                      /\ s.passed_visible = s.total_visible
                      /\ s.passed_hidden = s.total_hidden

\* C30: an interview whose tasks all pass every visible and hidden test
\* without hints, with at least 3.5 years of experience and self-claimed
\* grade senior, receives the final grade senior
C30_PerfectSeniorGradedSenior ==
    (/\ FinalGraded
     /\ PerfectInterview
     /\ final.years_of_experience # None
     /\ RatGeq(final.years_of_experience[1], Rat(7, 2))
     /\ final.selected_level = Chars_senior)
        => final.overall_grade = Some(Chars_senior)

\* what the function can return: the coding score is 0, so no grade above
\* junior
C30_NeverAboveJunior ==
    FinalGraded =>
        /\ final.calc[1].raised = ""
        /\ final.calc[1].value[1].coding_score = RatOfInt(0)
        /\ final.overall_grade \in {Some(Chars_intern), Some(Chars_junior)}

====
